---- MODULE Spec2Model ----
(***************************************************************************)
(* LizardByte/packages: the release-asset mirroring pipeline.              *)
(*                                                                         *)
(*   sync walker      syncReleaseAssets / processRepository /              *)
(*                    processRelease / processAsset                        *)
(*   fetcher, hasher  downloadAssetWithRetry, generateHashFiles            *)
(*   manifest stage   cleanupNonVPrefixedReleases, generatePackagesJson,   *)
(*                    writePackagesJson, generatePackagesWithCleanup       *)
(*                                                                         *)
(* Names (files, directories, tags) are strings.  A directory name's       *)
(* spelling (its characters) is kept in a table built from the spellings   *)
(* themselves, so that startsWith and the collation read characters.       *)
(*                                                                         *)
(* What may fail: listing the repositories, listing a repository's         *)
(* releases, a download attempt (the request, or the write of the file),   *)
(* the hashing of a downloaded file, the cleaner's reading or removing of  *)
(* directories, the write of the manifest.  Other file-system calls        *)
(* (exists, stat, unlink, mkdir, the builder's readdir) succeed.           *)
(*                                                                         *)
(* Spec is the pipeline: sync runs, each followed by the manifest stage.   *)
(* SpecStage is the manifest stage run alone on any tree, with files       *)
(* deleted between stages.  SpecSort is the manifest stage on trees whose  *)
(* release tags exercise the ordering.                                     *)
(***************************************************************************)
EXTENDS Integers, Sequences, FiniteSets, TLC

(***************************************************************************)
(* Strings                                                                 *)
(***************************************************************************)

RECURSIVE Join(_)
Join(cs) == IF cs = <<>> THEN "" ELSE Head(cs) \o Join(Tail(cs))

\* Spellings of every directory name of the model (top-level names and tags).
NameSpellings ==
  { <<"r","1">>, <<"r","2">>, <<"r","3">>, <<".","g","i","t">>,
    <<"o","b","j">>,
    <<"v","1">>, <<"v","2">>, <<"v","9">>, <<"v","1","0">>,
    <<"l","a","t","e","s","t">>,
    <<"v","1",".","9",".","0">>, <<"v","1",".","1","0",".","0">>,
    <<"v","2",".","0",".","0">>, <<"v","2",".","0">>, <<"v","0","2",".","0">>,
    <<"v","2",".","0","-","r","c">>, <<"v","2",".","0","-","R","C">>,
    <<"v","1","0",".","0">> }

SpellTable == [ n \in { Join(s) : s \in NameSpellings } |->
                  CHOOSE s \in NameSpellings : Join(s) = n ]

Spell(n) == SpellTable[n]

\* String.prototype.startsWith for a one-character prefix
StartsWith(n, c) == Len(Spell(n)) >= 1 /\ Spell(n)[1] = c

(***************************************************************************)
(* String.prototype.localeCompare: the root collation.  A string is a      *)
(* sequence of collation elements; punctuation sorts before digits, digits *)
(* before letters.  With numeric: true a maximal run of digits is one      *)
(* element ordered by its value; with sensitivity: 'base' only primary     *)
(* weights (letters without their case) are compared.                      *)
(***************************************************************************)
Punct  == <<"_", "-", ".">>
Digits == <<"0", "1", "2", "3", "4", "5", "6", "7", "8", "9">>
Lower  == <<"a","b","c","d","e","f","g","h","i","j","k","l","m",
            "n","o","p","q","r","s","t","u","v","w","x","y","z">>
Upper  == <<"A","B","C","D","E","F","G","H","I","J","K","L","M",
            "N","O","P","Q","R","S","T","U","V","W","X","Y","Z">>

IndexOf(c, s) == IF \E i \in 1..Len(s) : s[i] = c
                 THEN CHOOSE i \in 1..Len(s) : s[i] = c ELSE 0

IsDigit(c) == IndexOf(c, Digits) > 0
DigitVal(c) == IndexOf(c, Digits) - 1

\* primary weight of one character that is not part of a number:
\* <<class, rank>>, class 0 punctuation, 1 digit, 2 letter
Primary(c) ==
  IF IndexOf(c, Punct) > 0 THEN <<0, IndexOf(c, Punct)>>
  ELSE IF IsDigit(c) THEN <<1, DigitVal(c)>>
  ELSE IF IndexOf(c, Lower) > 0 THEN <<2, IndexOf(c, Lower)>>
  ELSE <<2, IndexOf(c, Upper)>>

\* the collation elements of a spelling
RECURSIVE Elements(_, _)
Elements(cs, numeric) ==
  IF cs = <<>> THEN <<>>
  ELSE IF numeric /\ IsDigit(Head(cs))
       THEN IF Len(cs) >= 2 /\ IsDigit(cs[2])
            THEN LET rest == Elements(Tail(cs), numeric)
                     \* the run continues: fold this digit into its value
                     n == Len(cs)
                     runLen == CHOOSE k \in 1..n :
                                 /\ \A i \in 1..k : IsDigit(cs[i])
                                 /\ (k = n \/ ~IsDigit(cs[k + 1]))
                     Pow10[e \in 0..n] == IF e = 0 THEN 1 ELSE 10 * Pow10[e - 1]
                 IN  <<<<1, DigitVal(Head(cs)) * Pow10[runLen - 1] + Head(rest)[2]>>>>
                       \o Tail(rest)
            ELSE <<<<1, DigitVal(Head(cs))>>>> \o Elements(Tail(cs), numeric)
       ELSE <<Primary(Head(cs))>> \o Elements(Tail(cs), numeric)

PairLess(p, q) == p[1] < q[1] \/ (p[1] = q[1] /\ p[2] < q[2])

\* -1, 0, 1 by the first differing element; a proper prefix sorts first
RECURSIVE CompareElements(_, _)
CompareElements(e, f) ==
  IF e = <<>> /\ f = <<>> THEN 0
  ELSE IF e = <<>> THEN -1
  ELSE IF f = <<>> THEN 1
  ELSE IF PairLess(Head(e), Head(f)) THEN -1
  ELSE IF PairLess(Head(f), Head(e)) THEN 1
  ELSE CompareElements(Tail(e), Tail(f))

\* the collation elements of every name, computed once
NumericKey == [ n \in DOMAIN SpellTable |-> Elements(Spell(n), TRUE) ]
PlainKey   == [ n \in DOMAIN SpellTable |-> Elements(Spell(n), FALSE) ]

\* a.localeCompare(b, undefined, { numeric: true, sensitivity: 'base' })
LocaleCompareLexical(a, b) == CompareElements(PlainKey[a], PlainKey[b])

LocaleCompareNumericBase(a, b) == CompareElements(NumericKey[a], NumericKey[b])

\* a.localeCompare(b): primary weights, then lower case before upper case
RECURSIVE CaseCompare(_, _)
CaseCompare(cs, ds) ==
  IF cs = <<>> \/ ds = <<>> THEN 0
  ELSE LET u == IF IndexOf(Head(cs), Upper) > 0 THEN 1 ELSE 0
           w == IF IndexOf(Head(ds), Upper) > 0 THEN 1 ELSE 0
       IN  IF u < w THEN -1 ELSE IF u > w THEN 1
           ELSE CaseCompare(Tail(cs), Tail(ds))

LocaleCompare(a, b) ==
  LET p == CompareElements(PlainKey[a], PlainKey[b])
  IN  IF p # 0 THEN p ELSE CaseCompare(Spell(a), Spell(b))

(***************************************************************************)
(* Array.prototype.sort: stable, by a comparator (negative: first         *)
(* argument first).                                                        *)
(***************************************************************************)
\* releases.sort((a, b) => b.tag.localeCompare(a.tag, undefined,
\*                                   { numeric: true, sensitivity: 'base' }))
ReleaseCmpLexical(a, b) == LocaleCompareLexical(b.tag, a.tag)

ReleaseCmp(a, b) == LocaleCompareNumericBase(b.tag, a.tag)

\* repositories.sort((a, b) => a.name.localeCompare(b.name))
RepositoryCmp(a, b) == LocaleCompare(a.name, b.name)

\* the comparator passed to sort: "release" or "repository"
Comparator(by, a, b) == IF by = "release" THEN ReleaseCmp(a, b) ELSE RepositoryCmp(a, b)

RECURSIVE InsertSorted(_, _, _)
InsertSorted(x, s, by) ==
  IF s = <<>> THEN <<x>>
  ELSE IF Comparator(by, x, Head(s)) < 0 THEN <<x>> \o s
  ELSE <<Head(s)>> \o InsertSorted(x, Tail(s), by)

RECURSIVE ArraySort(_, _)
ArraySort(s, by) ==
  IF s = <<>> THEN <<>>
  ELSE InsertSorted(s[Len(s)], ArraySort(SubSeq(s, 1, Len(s) - 1), by), by)

\* the releases as readdir gave them, without the sort
SortReleasesAsListed(rs) == rs

\* releases.sort((a, b) => b.tag.localeCompare(a.tag, undefined, {...}))
SortReleases(rs) == ArraySort(rs, "release")

\* repositories.sort(...) left out
SortRepositoriesAsListed(rs) == rs

SortRepositories(rs) == ArraySort(rs, "repository")


(***************************************************************************)
(* The upstream (discovery interface) and the run parameters               *)
(***************************************************************************)
MaxFaults  == 1   \* operations (enumerations, downloads, hashings, writes) that may fail
MaxQuota   == 1   \* largest maxNewAssets tried (0 = unlimited)
MaxRuns    == 2   \* sync runs in one behaviour
MaxRebuilds == 2  \* manifest stages started without a sync run before them
MaxOutOfBand == 1 \* asset files deleted behind the pipeline's back

\* const maxSizeBytes = 50 * 1024 * 1024
maxSizeBytes == 50 * 1024 * 1024
\* downloadAssetWithRetry(url, filePath, token, maxRetries = 3)
maxRetries == 3
\* isPullRequest ? 2 : null
PullRequestReleaseLimit == 2
\* setTimeout(resolve, 1000 * Math.pow(2, attempt - 1))
BackoffBaseMs == 1000

SmallSize == 1024
AssetSizes == {SmallSize, maxSizeBytes, maxSizeBytes + 1}

HashTypes == <<"sha256", "sha512", "md5">>
\* length of the hex digest written to a hash file
HexLength(hashType) == CASE hashType = "sha256" -> 64
                         [] hashType = "sha512" -> 128
                         [] OTHER -> 32

\* `${assetPath}.${hashType}`
HashFile(name, hashType) == name \o "." \o hashType

AssetNames == {"a.zip", "b.zip", "a.zip.sha256"}
\* what a file name of the model may have before a hash suffix
Stems == AssetNames \cup {""} \cup { HashFile(n, HashTypes[i]) : n \in AssetNames, i \in 1..3 }

\* String.prototype.endsWith
EndsWith(name, suffix) == \E stem \in Stems : name = stem \o suffix

\* github.paginate(github.rest.repos.listForOrg, ...): the repositories, in order
RepoOrder == <<"r1", "r2", "r3">>

Asset(n, sz) == [name |-> n, size |-> sz]
Release(t, d, p, as) == [tag_name |-> t, draft |-> d, prerelease |-> p, assets |-> as]

\* The releases each repository publishes.  r1/v10/a.zip has size sz; r1/v9 is
\* published, a draft, a prerelease or without assets; r2 has one published
\* release, or a second one whose tag has no "v" prefix, or only a draft, or
\* v1 listed before v2 (a release of the older line made after v2);
\* r3's second asset is b.zip or is named like the hash artifact of the first.
UpstreamOf(sz, kind, r2kind, second) ==
  [ r \in {"r1", "r2", "r3"} |->
      CASE r = "r1" ->
             << Release("v10", FALSE, FALSE, <<Asset("a.zip", sz), Asset("b.zip", SmallSize)>>),
                Release("v9", kind = "draft", kind = "prerelease",
                        IF kind = "empty" THEN <<>> ELSE <<Asset("a.zip", SmallSize)>>),
                Release("v2", FALSE, FALSE, <<Asset("a.zip", SmallSize)>>) >>
        [] r = "r2" ->
             << Release("v1", r2kind = "draft", FALSE, <<Asset("a.zip", SmallSize)>>) >>
             \o (IF r2kind = "latest"
                 THEN << Release("latest", FALSE, FALSE, <<Asset("a.zip", SmallSize)>>) >>
                 ELSE IF r2kind = "backport"
                 THEN << Release("v2", FALSE, FALSE, <<Asset("a.zip", SmallSize)>>) >>
                 ELSE <<>>)
        [] OTHER ->
             << Release("v1", FALSE, FALSE, <<Asset("a.zip", SmallSize), Asset(second, SmallSize)>>) >> ]

Upstreams ==
  { UpstreamOf(sz, "published", "plain", "b.zip") : sz \in AssetSizes }
  \cup { UpstreamOf(SmallSize, kind, "plain", "b.zip") : kind \in {"draft", "prerelease", "empty"} }
  \cup { UpstreamOf(SmallSize, "published", r2kind, "b.zip") : r2kind \in {"latest", "draft"} }
  \cup { UpstreamOf(SmallSize, "published", "plain", "a.zip.sha256") }

(***************************************************************************)
(* The content store: the dist tree                                        *)
(***************************************************************************)
\* a path is <<top-level directory, subdirectory, file name>>
Put(f, p, v) == [ q \in (DOMAIN f) \cup {p} |-> IF q = p THEN v ELSE f[q] ]
Without(f, S) == [ q \in (DOMAIN f) \ S |-> f[q] ]

\* path.join(releaseDir, asset.name) with releaseDir = path.join(repoName, tag)
AssetPath(repoName, tag, name) == <<repoName, tag, name>>
\* every asset of a release hashed into the hash files of a.zip
HashPathShared(p, hashType) == <<p[1], p[2], HashFile("a.zip", hashType)>>

HashPath(p, hashType) == <<p[1], p[2], HashFile(p[3], hashType)>>
HashPaths(p) == { HashPath(p, HashTypes[i]) : i \in 1..3 }

\* an existence check that never finds the file
fileExistsNever(f, p) == FALSE

\* fileExists(filePath): fs.existsSync
fileExists(f, p) == p \in DOMAIN f

\* an asset file with its three hash artifacts
WithHashes(f, p, sz) ==
  LET g == Put(f, p, sz)
      h1 == Put(g, HashPath(p, "sha256"), HexLength("sha256"))
      h2 == Put(h1, HashPath(p, "sha512"), HexLength("sha512"))
  IN  Put(h2, HashPath(p, "md5"), HexLength("md5"))

\* the version-control directory of the dist checkout
GitFiles == Put(<<>>, <<".git", "obj", "pack">>, SmallSize)
GitDirs  == { <<".git", "obj">> }

\* what a worktree may hold before the first run: nothing, r1/v10/a.zip as a
\* sync run left it, asset files larger than the ceiling (downloaded under a
\* looser policy), or a stale release directory without the "v" prefix
InitialTrees ==
  { [files |-> GitFiles, dirs |-> GitDirs],
    [files |-> WithHashes(GitFiles, <<"r1", "v10", "a.zip">>, SmallSize),
     dirs  |-> GitDirs \cup { <<"r1", "v10">> }],
    [files |-> WithHashes(WithHashes(GitFiles, <<"r1", "v10", "a.zip">>, maxSizeBytes + 1),
                          <<"r3", "v1", "a.zip">>, maxSizeBytes + 1),
     dirs  |-> GitDirs \cup { <<"r1", "v10">>, <<"r3", "v1">> }],
    [files |-> WithHashes(WithHashes(GitFiles, <<"r2", "latest", "a.zip">>, SmallSize),
                          <<"r2", "v1", "a.zip">>, SmallSize),
     dirs  |-> GitDirs \cup { <<"r2", "latest">>, <<"r2", "v1">> }] }


(***************************************************************************)
(* State                                                                   *)
(***************************************************************************)
VARIABLES
  upstream,       \* what the discovery interface lists (unchanged in a behaviour)
  isPullRequest,  \* run parameter: constrained run
  maxNewAssets,   \* run parameter: new-asset quota, 0 = unlimited
  files,          \* the dist tree: path -> size in bytes
  dirs,           \* the dist tree: <<top-level directory, subdirectory>>
  metadataFile,   \* repo-metadata.json
  manifestFile,   \* packages.json
  pc,             \* where the running entry point is
  sync,           \* locals of syncReleaseAssets
  repository,     \* locals of processRepository
  release,        \* locals of processRelease
  attempt,        \* downloadAssetWithRetry: the loop variable
  packagesData,   \* generatePackagesWithCleanup: the data between build and write
  outcome,        \* how the last entry point ended: "none", "ok", "error"
  clock,          \* new Date()
  faults,         \* operations that have failed so far
  runs, rebuilds, outOfBand,   \* how often each environment step has happened
  \* history, written but never read by the program
  startFiles,     \* the tree when the current sync run started
  entered,        \* asset paths processAsset was called for in this run
  gated,          \* asset paths processAsset refused for their size in this run
  attempted,      \* asset paths a download attempt was made for in this run
  downloaded,     \* asset paths a download attempt wrote in full in this run
  wrote,          \* paths written in this run (assets, truncated assets, hash files)
  removed,        \* paths unlinked in this run
  listed,         \* repositories whose releases the run asked for
  threw,          \* repositories whose release enumeration threw in this run
  fetch,          \* the current or last download: attempts, successes, waits, end,
                  \* and the download attempts of the run so far
  faultRuns,      \* the runs (by number) in which an operation failed
  built,          \* the tree and overlay the manifest file was generated from
  before          \* manifest file, built and tree when the last manifest stage began,
                  \* and the top-level directories its cleaner failed on

params  == <<upstream, isPullRequest, maxNewAssets>>
tree    == <<files, dirs>>
walker  == <<sync, repository, release, attempt>>
history == <<startFiles, entered, gated, attempted, downloaded, wrote, removed, listed, threw, fetch>>
budget  == <<runs, rebuilds, outOfBand>>
stage   == <<built, before>>
vars    == <<params, tree, metadataFile, manifestFile, pc, walker, packagesData, outcome,
             clock, faults, budget, history, faultRuns, stage>>

Absent == [state |-> "absent"]

\* the overlay a previous run may have left: absent, or naming r1 as archived,
\* or the record list processRepository accumulates (name and releases)
InitialMetadata ==
  { Absent,
    [state |-> "json", data |-> <<[name |-> "r1", archived |-> TRUE]>>],
    [state |-> "json",
     data |-> <<[name |-> "r2", releases |-> <<[tag |-> "v1", assetCount |-> 1]>>]>>] }

BaseUpstream == UpstreamOf(SmallSize, "published", "plain", "b.zip")
EmptyTree == [files |-> GitFiles, dirs |-> GitDirs]

Configuration(u, t, m, pr, k) == [up |-> u, tr |-> t, meta |-> m, pr |-> pr, quota |-> k]

\* the upstreams, worktrees and run parameters a behaviour may start from:
\* every upstream on an empty tree; a quota on the base upstream; every size
\* of r1/v10/a.zip on every tree; a quota in a constrained run on every tree;
\* constrained runs and a metadata file left by an earlier run; a
\* constrained run on an upstream whose r1/v9 has no assets
Configurations ==
  { Configuration(u, EmptyTree, Absent, FALSE, 0) : u \in Upstreams }
  \cup { Configuration(UpstreamOf(SmallSize, "empty", "plain", "b.zip"), EmptyTree, Absent, TRUE, 0) }
  \cup { Configuration(BaseUpstream, EmptyTree, Absent, FALSE, k) : k \in 1..MaxQuota }
  \cup { Configuration(UpstreamOf(sz, "published", "plain", "b.zip"), t, Absent, FALSE, 0) :
           sz \in AssetSizes, t \in InitialTrees }
  \cup { Configuration(BaseUpstream, t, Absent, TRUE, k) : t \in InitialTrees, k \in 1..MaxQuota }
  \cup { Configuration(BaseUpstream, EmptyTree, m, pr, 0) : m \in InitialMetadata, pr \in BOOLEAN }

NoFetch == [path |-> <<>>, tries |-> 0, oks |-> 0, waits |-> <<>>, end |-> "none", total |-> 0]
NoSync == [repoIdx |-> 0, totalAssets |-> 0, totalProcessedReleases |-> 0,
           newAssetsDownloaded |-> 0, repositoryData |-> <<>>]
NoRepository == [name |-> "", publishedReleases |-> <<>>, relIdx |-> 0, totalAssets |-> 0,
                 processedReleasesWithAssets |-> 0, repoNewAssets |-> 0, releases |-> <<>>]
NoRelease == [assetIdx |-> 0, assetCount |-> 0, newAssets |-> 0]

\* the state before anything has run, on a given tree
Start(c) ==
  /\ upstream = c.up
  /\ files = c.tr.files
  /\ dirs = c.tr.dirs
  /\ metadataFile = c.meta
  /\ isPullRequest = c.pr
  /\ maxNewAssets = c.quota
  /\ startFiles = c.tr.files
  /\ built = Absent
  /\ before = [manifest |-> Absent, built |-> Absent, files |-> c.tr.files, dirs |-> c.tr.dirs,
               failed |-> {}]
  /\ manifestFile = Absent
  /\ pc = "idle"
  /\ sync = NoSync
  /\ repository = NoRepository
  /\ release = NoRelease
  /\ attempt = 0
  /\ packagesData = Absent
  /\ outcome = "none"
  /\ clock = 0
  /\ faults = 0
  /\ runs = 0 /\ rebuilds = 0 /\ outOfBand = 0
  /\ entered = {} /\ gated = {} /\ attempted = {} /\ downloaded = {}
  /\ wrote = {} /\ removed = {} /\ listed = {} /\ threw = {}
  /\ fetch = NoFetch
  /\ faultRuns = {}

Init == \E c \in Configurations : Start(c)

(***************************************************************************)
(* Failures the environment may inject: an enumeration that throws, a      *)
(* download attempt that fails, a hashing that fails, a manifest write     *)
(* that fails.  MaxFaults bounds the operations that fail; the attempts    *)
(* of one download count as one operation.                                 *)
(***************************************************************************)
MayFail == faults < MaxFaults
Failed == /\ faults' = faults + 1
          /\ faultRuns' = faultRuns \cup {runs}
NotFailed == UNCHANGED <<faults, faultRuns>>

\* the quota compared without asking whether there is one
LimitReachedAtZero(n) == n >= maxNewAssets

(***************************************************************************)
(* The sync walker                                                         *)
(***************************************************************************)
\* a quota that is never reached
LimitNeverReached(n) == FALSE

\* maxNewAssets > 0 && n >= maxNewAssets
LimitReached(n) == maxNewAssets > 0 /\ n >= maxNewAssets

\* every release, the filter left out
PublishedWithDrafts(releases) == releases

\* releases.filter(release => !release.draft && !release.prerelease)
Published(releases) == SelectSeq(releases, LAMBDA r : ~r.draft /\ ~r.prerelease)

CurRepo    == RepoOrder[sync.repoIdx]
CurRelease == repository.publishedReleases[repository.relIdx]
\* the assets of a release taken from the last to the first
CurAssetFromLast == CurRelease.assets[Len(CurRelease.assets) - release.assetIdx + 1]
CurAsset   == CurRelease.assets[release.assetIdx]
CurPath    == AssetPath(repository.name, CurRelease.tag_name, CurAsset.name)

\* syncReleaseAssets up to its loop: the repositories are listed
SyncBegins ==
  /\ pc = "idle"
  /\ pc' = "repos"
  /\ sync' = [NoSync EXCEPT !.repoIdx = 1]
  /\ repository' = NoRepository
  /\ release' = NoRelease
  /\ attempt' = 0
  /\ outcome' = "none"
  /\ startFiles' = files
  /\ entered' = {} /\ gated' = {} /\ attempted' = {} /\ downloaded' = {}
  /\ wrote' = {} /\ removed' = {} /\ listed' = {} /\ threw' = {}
  /\ fetch' = NoFetch
  /\ NotFailed
  /\ UNCHANGED <<params, tree, metadataFile, manifestFile, packagesData, clock,
                 rebuilds, outOfBand, stage>>

\* a sync run starts, one of at most MaxRuns
SyncStart ==
  /\ runs < MaxRuns
  /\ runs' = runs + 1
  /\ SyncBegins

\* the schedule starts the pipeline again, any number of times
SyncStartAgain ==
  /\ UNCHANGED runs
  /\ SyncBegins

\* the error of the listing caught and the run reported as done
ListRepositoriesSwallowed ==
  /\ pc = "idle"
  /\ runs < MaxRuns
  /\ MayFail
  /\ runs' = runs + 1
  /\ faults' = faults + 1
  /\ faultRuns' = faultRuns \cup {runs + 1}
  /\ outcome' = "ok"
  /\ startFiles' = files
  /\ entered' = {} /\ gated' = {} /\ attempted' = {} /\ downloaded' = {}
  /\ wrote' = {} /\ removed' = {} /\ listed' = {} /\ threw' = {}
  /\ fetch' = NoFetch
  /\ sync' = NoSync
  /\ UNCHANGED <<params, tree, metadataFile, manifestFile, pc, repository, release, attempt,
                 packagesData, clock, rebuilds, outOfBand, stage>>

\* github.paginate(listForOrg) throws: nothing catches it, the run ends
ListRepositoriesThrows ==
  /\ pc = "idle"
  /\ runs < MaxRuns
  /\ MayFail
  /\ runs' = runs + 1
  /\ faults' = faults + 1
  /\ faultRuns' = faultRuns \cup {runs + 1}
  /\ outcome' = "error"
  /\ startFiles' = files
  /\ entered' = {} /\ gated' = {} /\ attempted' = {} /\ downloaded' = {}
  /\ wrote' = {} /\ removed' = {} /\ listed' = {} /\ threw' = {}
  /\ fetch' = NoFetch
  /\ sync' = NoSync
  /\ UNCHANGED <<params, tree, metadataFile, manifestFile, pc, repository, release, attempt,
                 packagesData, clock, rebuilds, outOfBand, stage>>

\* the for loop of syncReleaseAssets ends: all repositories done, or the limit
SyncLoopExit ==
  /\ pc = "repos"
  /\ \/ sync.repoIdx > Len(RepoOrder)
     \/ LimitReached(sync.newAssetsDownloaded)
  /\ pc' = "store"
  /\ NotFailed
  /\ UNCHANGED <<params, tree, metadataFile, manifestFile, walker, packagesData, outcome,
                 clock, budget, history, stage>>

InRepoLoop ==
  /\ pc = "repos"
  /\ sync.repoIdx <= Len(RepoOrder)
  /\ ~LimitReached(sync.newAssetsDownloaded)

\* what processRepository returns to the loop, and the loop's bookkeeping
RepositoryReturns(totalAssets, processedReleases, newAssetsDownloaded, repositoryData) ==
  sync' = [sync EXCEPT !.repoIdx = @ + 1,
                       !.totalAssets = totalAssets,
                       !.totalProcessedReleases = @ + processedReleases,
                       !.newAssetsDownloaded = newAssetsDownloaded,
                       !.repositoryData = repositoryData]

\* processRepository: the catch block, when the enumeration throws
CatchRepositoryErrorAborts ==
  /\ pc' = "idle"
  /\ outcome' = "error"
  /\ UNCHANGED sync

\* the counts of the run set back by the catch
CatchRepositoryErrorResets ==
  /\ RepositoryReturns(0, 0, 0, sync.repositoryData)
  /\ UNCHANGED <<pc, outcome>>

CatchRepositoryError ==
  /\ RepositoryReturns(sync.totalAssets, 0, sync.newAssetsDownloaded, sync.repositoryData)
  /\ UNCHANGED <<pc, outcome>>

\* processRepository: github.paginate(listReleases) throws
ReleaseEnumerationThrows ==
  /\ InRepoLoop
  /\ MayFail
  /\ Failed
  /\ listed' = listed \cup {CurRepo}
  /\ threw' = threw \cup {CurRepo}
  /\ CatchRepositoryError
  /\ UNCHANGED <<params, tree, metadataFile, manifestFile, repository, release, attempt,
                 packagesData, clock, budget, startFiles, entered, gated, attempted,
                 downloaded, wrote, removed, fetch, stage>>

\* processRepository: no published release, early return
NoPublishedReleases ==
  /\ InRepoLoop
  /\ Published(upstream[CurRepo]) = <<>>
  /\ listed' = listed \cup {CurRepo}
  /\ RepositoryReturns(sync.totalAssets, 0, sync.newAssetsDownloaded, sync.repositoryData)
  /\ NotFailed
  /\ UNCHANGED <<params, tree, metadataFile, manifestFile, pc, repository, release, attempt,
                 packagesData, outcome, clock, budget, startFiles, entered, gated, attempted,
                 downloaded, wrote, removed, threw, fetch, stage>>

\* processRepository up to its loop over the published releases
EnterRepository ==
  /\ InRepoLoop
  /\ Published(upstream[CurRepo]) # <<>>
  /\ listed' = listed \cup {CurRepo}
  /\ repository' = [name |-> CurRepo,
                    publishedReleases |-> Published(upstream[CurRepo]),
                    relIdx |-> 1,
                    totalAssets |-> sync.totalAssets,
                    processedReleasesWithAssets |-> 0,
                    repoNewAssets |-> 0,
                    releases |-> <<>>]
  /\ pc' = "releases"
  /\ NotFailed
  /\ UNCHANGED <<params, tree, metadataFile, manifestFile, sync, release, attempt,
                 packagesData, outcome, clock, budget, startFiles, entered, gated, attempted,
                 downloaded, wrote, removed, threw, fetch, stage>>

\* the cap applied to the releases processed, with or without assets
ReleaseLimitCountsEvery ==
  /\ isPullRequest
  /\ repository.relIdx - 1 >= PullRequestReleaseLimit

\* isPullRequest && releaseLimit && processedReleasesWithAssets >= releaseLimit
ReleaseLimitReached ==
  /\ isPullRequest
  /\ repository.processedReleasesWithAssets >= PullRequestReleaseLimit

ReleaseLoopEnds ==
  \/ repository.relIdx > Len(repository.publishedReleases)
  \/ LimitReached(sync.newAssetsDownloaded + repository.repoNewAssets)
  \/ ReleaseLimitReached

\* the loop over the releases ends; processRepository returns
LeaveRepository ==
  /\ pc = "releases"
  /\ ReleaseLoopEnds
  /\ RepositoryReturns(repository.totalAssets,
                       repository.processedReleasesWithAssets,
                       sync.newAssetsDownloaded + repository.repoNewAssets,
                       IF Len(repository.releases) > 0
                       THEN Append(sync.repositoryData,
                                   [name |-> repository.name, releases |-> repository.releases])
                       ELSE sync.repositoryData)
  /\ pc' = "repos"
  /\ NotFailed
  /\ UNCHANGED <<params, tree, metadataFile, manifestFile, repository, release, attempt,
                 packagesData, outcome, clock, budget, history, stage>>

\* what processRelease returns to processRepository, and its bookkeeping
ReleaseReturns(assetCount, newAssets) ==
  repository' = [repository EXCEPT
    !.relIdx = @ + 1,
    !.totalAssets = @ + assetCount,
    !.repoNewAssets = @ + newAssets,
    !.releases = IF assetCount > 0
                 THEN Append(@, [tag |-> CurRelease.tag_name, assetCount |-> assetCount])
                 ELSE @,
    !.processedReleasesWithAssets = IF assetCount > 0 THEN @ + 1 ELSE @]

\* processRelease: a release without assets
ReleaseWithoutAssets ==
  /\ pc = "releases"
  /\ ~ReleaseLoopEnds
  /\ CurRelease.assets = <<>>
  /\ ReleaseReturns(0, 0)
  /\ NotFailed
  /\ UNCHANGED <<params, tree, metadataFile, manifestFile, pc, sync, release, attempt,
                 packagesData, outcome, clock, budget, history, stage>>

\* processRelease up to its loop over the assets: ensureDir(releaseDir)
\* ensureDir throws (mkdirSync fails): the error leaves processRelease and
\* the loop over the releases and is caught and logged by processRepository,
\* which returns what it has counted so far; its record is not pushed
EnsureDirThrows ==
  /\ pc = "releases"
  /\ ~ReleaseLoopEnds
  /\ CurRelease.assets # <<>>
  /\ MayFail
  /\ Failed
  /\ RepositoryReturns(repository.totalAssets,
                       repository.processedReleasesWithAssets,
                       sync.newAssetsDownloaded + repository.repoNewAssets,
                       sync.repositoryData)
  /\ pc' = "repos"
  /\ UNCHANGED <<params, tree, metadataFile, manifestFile, repository, release, attempt,
                 packagesData, outcome, clock, budget, history, stage>>

EnterRelease ==
  /\ pc = "releases"
  /\ ~ReleaseLoopEnds
  /\ CurRelease.assets # <<>>
  /\ dirs' = dirs \cup { <<repository.name, CurRelease.tag_name>> }
  /\ release' = [assetIdx |-> 1, assetCount |-> 0, newAssets |-> 0]
  /\ pc' = "assets"
  /\ NotFailed
  /\ UNCHANGED <<params, files, metadataFile, manifestFile, sync, repository, attempt,
                 packagesData, outcome, clock, budget, history, stage>>

AssetLoopEnds ==
  \/ release.assetIdx > Len(CurRelease.assets)
  \/ LimitReached(sync.newAssetsDownloaded + repository.repoNewAssets + release.newAssets)

\* the loop over the assets ends; processRelease returns
LeaveRelease ==
  /\ pc = "assets"
  /\ AssetLoopEnds
  /\ ReleaseReturns(release.assetCount, release.newAssets)
  /\ pc' = "releases"
  /\ NotFailed
  /\ UNCHANGED <<params, tree, metadataFile, manifestFile, sync, release, attempt,
                 packagesData, outcome, clock, budget, history, stage>>


(***************************************************************************)
(* The asset processor                                                     *)
(***************************************************************************)
\* asset.size > maxSizeBytes, stats.size > maxSizeBytes
TooLargeInclusive(size) == size >= maxSizeBytes

TooLarge(size) == size > maxSizeBytes

\* nothing unlinked
EvictedNothing(f, p) == {}

\* fs.unlinkSync(assetPath) and of each hash file that exists
EvictedFileOnly(f, p) == {p}

\* the eviction empties the repository's directory
EvictedRepository(f, p) == { q \in DOMAIN f : q[1] = p[1] }

Evicted(f, p) == {p} \cup { h \in HashPaths(p) : fileExists(f, h) }

\* processRelease: if (result.downloaded) { assetCount++; if (result.isNew) newAssets++ }
AssetReturns(isDownloaded, isNew) ==
  release' = [release EXCEPT !.assetIdx = @ + 1,
                             !.assetCount = IF isDownloaded THEN @ + 1 ELSE @,
                             !.newAssets = IF isDownloaded /\ isNew THEN @ + 1 ELSE @]

InAssetLoop == pc = "assets" /\ ~AssetLoopEnds

\* processAsset: the asset is over the size limit; an existing file is removed
SkipTooLarge ==
  /\ InAssetLoop
  /\ TooLarge(CurAsset.size)
  /\ LET gone == IF fileExists(files, CurPath) THEN Evicted(files, CurPath) ELSE {}
     IN  /\ files' = Without(files, gone)
         /\ removed' = removed \cup gone
  /\ entered' = entered \cup {CurPath}
  /\ gated' = gated \cup {CurPath}
  /\ AssetReturns(FALSE, FALSE)
  /\ NotFailed
  /\ UNCHANGED <<params, dirs, metadataFile, manifestFile, pc, sync, repository, attempt,
                 packagesData, outcome, clock, budget, startFiles, attempted, downloaded,
                 wrote, listed, threw, fetch, stage>>

\* processAsset: the file exists and is within the limit
SkipExisting ==
  /\ InAssetLoop
  /\ ~TooLarge(CurAsset.size)
  /\ fileExists(files, CurPath)
  /\ ~TooLarge(files[CurPath])
  /\ entered' = entered \cup {CurPath}
  /\ AssetReturns(TRUE, FALSE)
  /\ NotFailed
  /\ UNCHANGED <<params, tree, metadataFile, manifestFile, pc, sync, repository, attempt,
                 packagesData, outcome, clock, budget, startFiles, gated, attempted,
                 downloaded, wrote, removed, listed, threw, fetch, stage>>

\* processAsset up to the call of downloadAssetWithRetry: the file does not
\* exist, or exists over the limit and is removed first
BeginDownload ==
  /\ InAssetLoop
  /\ ~TooLarge(CurAsset.size)
  /\ fileExists(files, CurPath) => TooLarge(files[CurPath])
  /\ LET gone == IF fileExists(files, CurPath) THEN Evicted(files, CurPath) ELSE {}
     IN  /\ files' = Without(files, gone)
         /\ removed' = removed \cup gone
  /\ entered' = entered \cup {CurPath}
  /\ attempt' = 1
  /\ fetch' = [path |-> CurPath, tries |-> 0, oks |-> 0, waits |-> <<>>, end |-> "running",
               total |-> fetch.total]
  /\ pc' = "download"
  /\ NotFailed
  /\ UNCHANGED <<params, dirs, metadataFile, manifestFile, sync, repository, release,
                 packagesData, outcome, clock, budget, startFiles, gated, attempted,
                 downloaded, wrote, listed, threw, stage>>

(***************************************************************************)
(* The retrying fetcher                                                    *)
(***************************************************************************)
\* what a failed writeFileSync leaves of the file
TruncatedSize == 0

\* downloadFile succeeds: writeFile(filePath, Buffer.from(buffer)); return true
DownloadSucceeds ==
  /\ pc = "download"
  /\ files' = Put(files, CurPath, CurAsset.size)
  /\ attempted' = attempted \cup {CurPath}
  /\ downloaded' = downloaded \cup {CurPath}
  /\ wrote' = wrote \cup {CurPath}
  /\ fetch' = [fetch EXCEPT !.tries = @ + 1, !.total = @ + 1, !.oks = @ + 1, !.end = "ok"]
  /\ pc' = "hash"
  /\ NotFailed
  /\ UNCHANGED <<params, dirs, metadataFile, manifestFile, sync, repository, release, attempt,
                 packagesData, outcome, clock, budget, startFiles, entered, gated, removed,
                 listed, threw, stage>>

\* if (attempt === maxRetries) throw error
IsLastAttemptOffByOne(a) == a = maxRetries - 1

\* two attempts more than maxRetries
IsLastAttemptLate(a) == a = maxRetries + 2

IsLastAttempt(a) == a = maxRetries

\* the failed download counted as an asset of the release
DownloadFailsCounted ==
  /\ pc = "download"
  /\ IF attempt = 1 THEN MayFail /\ Failed ELSE NotFailed
  /\ UNCHANGED <<files, wrote>>
  /\ attempted' = attempted \cup {CurPath}
  /\ IF IsLastAttempt(attempt)
     THEN /\ fetch' = [fetch EXCEPT !.tries = @ + 1, !.total = @ + 1, !.end = "error"]
          /\ AssetReturns(TRUE, TRUE)
          /\ pc' = "assets"
     ELSE /\ fetch' = [fetch EXCEPT !.tries = @ + 1, !.total = @ + 1]
          /\ pc' = "backoff"
          /\ UNCHANGED release
  /\ UNCHANGED <<params, dirs, metadataFile, manifestFile, sync, repository, attempt,
                 packagesData, outcome, clock, budget, startFiles, entered, gated, downloaded,
                 removed, listed, threw, stage>>

\* the hasher called although the download threw
DownloadFailsThenHash ==
  /\ pc = "download"
  /\ IF attempt = 1 THEN MayFail /\ Failed ELSE NotFailed
  /\ UNCHANGED <<files, wrote>>
  /\ attempted' = attempted \cup {CurPath}
  /\ IF IsLastAttempt(attempt)
     THEN /\ fetch' = [fetch EXCEPT !.tries = @ + 1, !.total = @ + 1, !.end = "error"]
          /\ pc' = "hash"
          /\ UNCHANGED release
     ELSE /\ fetch' = [fetch EXCEPT !.tries = @ + 1, !.total = @ + 1]
          /\ pc' = "backoff"
          /\ UNCHANGED release
  /\ UNCHANGED <<params, dirs, metadataFile, manifestFile, sync, repository, attempt,
                 packagesData, outcome, clock, budget, startFiles, entered, gated, downloaded,
                 removed, listed, threw, stage>>

\* downloadFile throws: the request failed (nothing written) or writeFileSync
\* failed (a truncated file is left).  After the last attempt the error goes
\* to processAsset's catch; before it the loop waits.
DownloadFails ==
  /\ pc = "download"
  /\ IF attempt = 1 THEN MayFail /\ Failed ELSE NotFailed
  /\ \E kind \in {"request", "write"} :
       IF kind = "write"
       THEN /\ files' = Put(files, CurPath, TruncatedSize)
            /\ wrote' = wrote \cup {CurPath}
       ELSE UNCHANGED <<files, wrote>>
  /\ attempted' = attempted \cup {CurPath}
  /\ IF IsLastAttempt(attempt)
     THEN /\ fetch' = [fetch EXCEPT !.tries = @ + 1, !.total = @ + 1, !.end = "error"]
          /\ AssetReturns(FALSE, FALSE)
          /\ pc' = "assets"
     ELSE /\ fetch' = [fetch EXCEPT !.tries = @ + 1, !.total = @ + 1]
          /\ pc' = "backoff"
          /\ UNCHANGED release
  /\ UNCHANGED <<params, dirs, metadataFile, manifestFile, sync, repository, attempt,
                 packagesData, outcome, clock, budget, startFiles, entered, gated, downloaded,
                 removed, listed, threw, stage>>

RECURSIVE Pow2(_)
Pow2(n) == IF n = 0 THEN 1 ELSE 2 * Pow2(n - 1)

\* the exponent one too high
BackoffDelayFromTwo(a) == BackoffBaseMs * Pow2(a)

\* 1000 * Math.pow(2, attempt - 1)
BackoffDelay(a) == BackoffBaseMs * Pow2(a - 1)

\* the timer fires; attempt++
Backoff ==
  /\ pc = "backoff"
  /\ fetch' = [fetch EXCEPT !.waits = Append(@, BackoffDelay(attempt))]
  /\ attempt' = attempt + 1
  /\ pc' = "download"
  /\ NotFailed
  /\ UNCHANGED <<params, tree, metadataFile, manifestFile, sync, repository, release,
                 packagesData, outcome, clock, budget, startFiles, entered, gated, attempted,
                 downloaded, wrote, removed, listed, threw, stage>>

(***************************************************************************)
(* The hasher                                                              *)
(***************************************************************************)
\* generateHashFiles: the first n of the three hash files written
RECURSIVE HashFilesWritten(_, _, _)
HashFilesWritten(f, p, n) ==
  IF n = 0 THEN f
  ELSE Put(HashFilesWritten(f, p, n - 1), HashPath(p, HashTypes[n]), HexLength(HashTypes[n]))

\* generateHashFiles returns true; processAsset returns { downloaded: true, isNew: true }
HashSucceeds ==
  /\ pc = "hash"
  /\ files' = HashFilesWritten(files, CurPath, 3)
  /\ wrote' = wrote \cup HashPaths(CurPath)
  /\ AssetReturns(TRUE, TRUE)
  /\ pc' = "assets"
  /\ NotFailed
  /\ UNCHANGED <<params, dirs, metadataFile, manifestFile, sync, repository, attempt,
                 packagesData, outcome, clock, budget, startFiles, entered, gated, attempted,
                 downloaded, removed, listed, threw, fetch, stage>>

\* the asset whose hashing failed counted as downloaded and new
HashFailsCounted ==
  /\ pc = "hash"
  /\ MayFail
  /\ Failed
  /\ \E n \in 0..2 :
       /\ files' = HashFilesWritten(files, CurPath, n)
       /\ wrote' = wrote \cup { HashPath(CurPath, HashTypes[i]) : i \in 1..n }
  /\ AssetReturns(TRUE, TRUE)
  /\ pc' = "assets"
  /\ UNCHANGED <<params, dirs, metadataFile, manifestFile, sync, repository, attempt,
                 packagesData, outcome, clock, budget, startFiles, entered, gated, attempted,
                 downloaded, removed, listed, threw, fetch, stage>>

\* generateHashFiles catches an error of readFile (nothing written) or of a
\* writeFile (the hash files before it written) and returns false;
\* processAsset returns { downloaded: false, isNew: true }
HashFails ==
  /\ pc = "hash"
  /\ MayFail
  /\ Failed
  /\ \E n \in 0..2 :
       /\ files' = HashFilesWritten(files, CurPath, n)
       /\ wrote' = wrote \cup { HashPath(CurPath, HashTypes[i]) : i \in 1..n }
  /\ AssetReturns(FALSE, TRUE)
  /\ pc' = "assets"
  /\ UNCHANGED <<params, dirs, metadataFile, manifestFile, sync, repository, attempt,
                 packagesData, outcome, clock, budget, startFiles, entered, gated, attempted,
                 downloaded, removed, listed, threw, fetch, stage>>

(***************************************************************************)
(* syncAssetsWithMetadata after the walker                                 *)
(***************************************************************************)
\* syncReleaseAssets ends without a return statement
SyncReturnValue == [state |-> "undefined"]

\* fs.writeFileSync(metadataPath, JSON.stringify(repositoryData, null, 2)):
\* with undefined this throws and repo-metadata.json is not written
StoreMetadata ==
  /\ pc = "store"
  /\ IF SyncReturnValue.state = "undefined"
     THEN /\ outcome' = "error"
          /\ UNCHANGED metadataFile
     ELSE /\ outcome' = "ok"
          /\ metadataFile' = [state |-> "json", data |-> SyncReturnValue.data]
  /\ pc' = "synced"
  /\ NotFailed
  /\ UNCHANGED <<params, tree, manifestFile, walker, packagesData, clock, budget,
                 history, stage>>


(***************************************************************************)
(* Reading directories                                                     *)
(***************************************************************************)
TopLevel(d) == { q[1] : q \in d }
SubDirs(d, top) == { q[2] : q \in { r \in d : r[1] = top } }
FilesIn(f, top, sub) == { q[3] : q \in { r \in DOMAIN f : r[1] = top /\ r[2] = sub } }

RECURSIVE SetToSeq(_)
SetToSeq(S) == IF S = {} THEN <<>>
               ELSE LET x == CHOOSE y \in S : TRUE IN <<x>> \o SetToSeq(S \ {x})

Reverse(s) == [ i \in 1..Len(s) |-> s[Len(s) + 1 - i] ]
Rotate(s, k) == [ i \in 1..Len(s) |-> s[((i - 1 + k) % Len(s)) + 1] ]

\* fs.readdirSync: the entries in an order the file system chooses; the
\* orders of the model are the rotations of one enumeration and their
\* reversals (every order of up to three entries)
ReaddirOrders == [rot : 0..2, rev : BOOLEAN]
readdirSync(S, o) ==
  IF S = {} THEN <<>>
  ELSE LET r == Rotate(SetToSeq(S), o.rot) IN IF o.rev THEN Reverse(r) ELSE r

(***************************************************************************)
(* The stale-state cleaner                                                 *)
(***************************************************************************)
\* dirent.name !== '.git' && dirent.name !== 'packages.json' && !dirent.name.startsWith('.')
CleanerSkips(top) == top = ".git" \/ top = "packages.json" \/ StartsWith(top, ".")

\* releaseDir.isDirectory() && !releaseDir.name.startsWith('v')
IsStaleEverything(sub) == TRUE

IsStale(sub) == ~StartsWith(sub, "v")

\* the directories cleanupNonVPrefixedReleases removes (fs.rmSync, recursive)
StaleDirs(d) == { q \in d : ~CleanerSkips(q[1]) /\ IsStale(q[2]) }

(***************************************************************************)
(* The manifest builder                                                    *)
(***************************************************************************)
Null == [null |-> TRUE]

\* every file name of the model
FileNames == (Stems \ {""}) \cup {"README.md", "pack"}
             \cup { HashFile(n, HashTypes[i]) : n \in Stems \ {""}, i \in 1..3 }

\* scanReleaseDirectory: the files that are not hash files and not README.md
IsAssetFile(name) ==
  ~( EndsWith(name, ".sha256") \/ EndsWith(name, ".sha512") \/ EndsWith(name, ".md5")
     \/ name = "README.md" )

\* the filter of scanReleaseDirectory over every file name, computed once
AssetFileNames == { n \in FileNames : IsAssetFile(n) }

\* every directory entry counted, whatever its name
scanReleaseDirectoryAnyFile(f, top, sub) ==
  LET assetFiles == FilesIn(f, top, sub)
  IN  IF Cardinality(assetFiles) > 0
      THEN [tag |-> sub, assetCount |-> Cardinality(assetFiles)]
      ELSE Null

scanReleaseDirectory(f, top, sub) ==
  LET assetFiles == FilesIn(f, top, sub) \cap AssetFileNames
  IN  IF Cardinality(assetFiles) > 0
      THEN [tag |-> sub, assetCount |-> Cardinality(assetFiles)]
      ELSE Null

\* scanRepositoryDirectory: the loop over the directory's entries
RECURSIVE ScanReleases(_, _, _)
ScanReleases(f, top, listing) ==
  IF listing = <<>> THEN <<>>
  ELSE LET releaseData == IF StartsWith(Head(listing), "v")
                          THEN scanReleaseDirectory(f, top, Head(listing))
                          ELSE Null
       IN  (IF releaseData # Null THEN <<releaseData>> ELSE <<>>)
             \o ScanReleases(f, top, Tail(listing))

\* scanRepositoryDirectory: the v-prefixed subdirectories with assets, sorted
scanRepositoryDirectory(f, d, top, o) ==
  LET releases == ScanReleases(f, top, readdirSync(SubDirs(d, top), o))
  IN  IF Len(releases) > 0
      THEN [name |-> top, archived |-> FALSE, releases |-> SortReleases(releases)]
      ELSE Null

\* the overlay: repoMetadataMap.get(dirent.name); a later record of the same
\* name replaces an earlier one in the map.  repoData.archived = metadata.archived
\* with a record that has no archived property makes it undefined, and
\* JSON.stringify leaves a property that is undefined out: the entry is then
\* without the key.
Overlay(metadata, repoData) ==
  LET hits == { i \in 1..Len(metadata) : metadata[i].name = repoData.name }
  IN  IF hits = {} THEN repoData
      ELSE LET last == CHOOSE i \in hits : \A j \in hits : j <= i
           IN  IF "archived" \in DOMAIN metadata[last]
               THEN [repoData EXCEPT !.archived = metadata[last].archived]
               ELSE [name |-> repoData.name, releases |-> repoData.releases]

\* generatePackagesJson: the loop over the entries of the dist directory
RECURSIVE ScanRepositories(_, _, _, _, _)
ScanRepositories(f, d, metadata, o, listing) ==
  IF listing = <<>> THEN <<>>
  ELSE LET repoData == IF Head(listing) # ".git"
                       THEN scanRepositoryDirectory(f, d, Head(listing), o)
                       ELSE Null
       IN  (IF repoData # Null THEN <<Overlay(metadata, repoData)>> ELSE <<>>)
             \o ScanRepositories(f, d, metadata, o, Tail(listing))

\* repositories.reduce((sum, repo) => sum + repo.releases.length, 0)
RECURSIVE TotalReleases(_)
TotalReleases(repositories) ==
  IF repositories = <<>> THEN 0
  ELSE Len(Head(repositories).releases) + TotalReleases(Tail(repositories))

\* releases.reduce((releaseSum, release) => releaseSum + release.assetCount, 0)
RECURSIVE ReleaseAssets(_)
ReleaseAssets(releases) ==
  IF releases = <<>> THEN 0
  ELSE Head(releases).assetCount + ReleaseAssets(Tail(releases))

RECURSIVE TotalAssets(_)
TotalAssets(repositories) ==
  IF repositories = <<>> THEN 0
  ELSE ReleaseAssets(Head(repositories).releases) + TotalAssets(Tail(repositories))

\* generatePackagesJson(distPath, repositoryMetadata)
generatePackagesJson(f, d, metadata, o, now) ==
  LET repositories ==
        SortRepositories(ScanRepositories(f, d, metadata, o, readdirSync(TopLevel(d), o)))
  IN  [lastUpdated |-> now,
       repositories |-> repositories,
       stats |-> [totalRepositories |-> Len(repositories),
                  totalReleases |-> TotalReleases(repositories),
                  totalAssets |-> TotalAssets(repositories)]]

(***************************************************************************)
(* generatePackagesWithCleanup: cleaner, builder, write                    *)
(***************************************************************************)
\* generatePackagesWithCleanup is entered
StageBegins ==
  /\ before' = [manifest |-> manifestFile, built |-> built, files |-> files, dirs |-> dirs,
                failed |-> {}]
  /\ pc' = "cleanup"
  /\ NotFailed
  /\ UNCHANGED <<params, tree, metadataFile, manifestFile, walker, packagesData, outcome, clock,
                 runs, outOfBand, history, built>>

\* the manifest stage starts after a sync run
GenerateStart ==
  /\ pc = "synced"
  /\ StageBegins
  /\ UNCHANGED rebuilds

\* the manifest stage starts alone, on the tree as it is
GenerateStartAlone ==
  /\ pc = "idle"
  /\ rebuilds < MaxRebuilds
  /\ rebuilds' = rebuilds + 1
  /\ StageBegins

\* Step 1: cleanupNonVPrefixedReleases(distPath), the stale directories
\* other than those of kept removed
cleanupNonVPrefixedReleases(kept) ==
  LET gone == StaleDirs(dirs) \ kept
  IN  /\ dirs' = dirs \ gone
      /\ files' = Without(files, { q \in DOMAIN files : <<q[1], q[2]>> \in gone })
      /\ pc' = "generate"
      /\ UNCHANGED <<params, metadataFile, manifestFile, walker, packagesData, outcome, clock,
                     budget, history, built>>

Cleanup ==
  /\ pc = "cleanup"
  /\ cleanupNonVPrefixedReleases({})
  /\ NotFailed
  /\ UNCHANGED before

\* the error of one repository ends the cleaning of the others
CleanupRepositoryAborts ==
  /\ pc = "cleanup"
  /\ MayFail
  /\ Failed
  /\ \E top \in TopLevel(StaleDirs(dirs)) :
       \E kept \in (SUBSET { q \in StaleDirs(dirs) : q[1] = top }) \ {{}} :
         /\ cleanupNonVPrefixedReleases(kept \cup { q \in StaleDirs(dirs) : q[1] # top })
         /\ before' = [before EXCEPT !.failed = {top}]

\* readdirSync(repoPath) or rmSync throws for one repository: the inner
\* catch logs it and the loop goes to the next top-level directory.  The
\* stale directories of that repository removed before the error are gone,
\* the others (one at least) stay as they were.
CleanupRepositoryFails ==
  /\ pc = "cleanup"
  /\ MayFail
  /\ Failed
  /\ \E top \in TopLevel(StaleDirs(dirs)) :
       \E kept \in (SUBSET { q \in StaleDirs(dirs) : q[1] = top }) \ {{}} :
         /\ cleanupNonVPrefixedReleases(kept)
         /\ before' = [before EXCEPT !.failed = {top}]

\* the builder scans and the manifest is written although the cleaner threw
CleanupThrowsThenBuilds ==
  /\ pc = "cleanup"
  /\ MayFail
  /\ Failed
  /\ outcome' = "error"
  /\ pc' = "idle"
  /\ packagesData' = [state |-> "complete",
                      data |-> generatePackagesJson(files, dirs, <<>>, [rot |-> 0, rev |-> FALSE], clock + 1)]
  /\ manifestFile' = packagesData'
  /\ UNCHANGED <<params, tree, metadataFile, walker, clock, budget, history, stage>>

\* readdirSync(distPath) throws: the outer catch rethrows and
\* generatePackagesWithCleanup rethrows; nothing was removed
CleanupThrows ==
  /\ pc = "cleanup"
  /\ MayFail
  /\ Failed
  /\ outcome' = "error"
  /\ pc' = "idle"
  /\ UNCHANGED <<params, tree, metadataFile, manifestFile, walker, packagesData, clock, budget,
                 history, stage>>

\* a record for r1 where the code falls back to the empty list
LoadedMetadataDefaulted ==
  IF metadataFile.state = "json" THEN metadataFile.data ELSE <<[name |-> "r1", archived |-> TRUE]>>

\* Step 2: repo-metadata.json read and parsed, or [] when that throws
LoadedMetadata == IF metadataFile.state = "json" THEN metadataFile.data ELSE <<>>

\* Steps 2 and 3: generatePackagesJson(distPath, repositoryMetadata)
\* new Date(): later than the last one, up to the latest time of the model
MaxClock == MaxRuns + MaxRebuilds
Tick(c) == IF c < MaxClock THEN c + 1 ELSE c

Generate ==
  /\ pc = "generate"
  /\ clock' = Tick(clock)
  /\ \E o \in ReaddirOrders :
       packagesData' = [state |-> "complete",
                        data |-> generatePackagesJson(files, dirs, LoadedMetadata, o, clock')]
  /\ pc' = "write"
  /\ NotFailed
  /\ UNCHANGED <<params, tree, metadataFile, manifestFile, walker, outcome, budget,
                 history, stage>>

\* Step 4: writePackagesJson: fs.writeFileSync(outputPath, jsonString, 'utf8')
WriteManifest ==
  /\ pc = "write"
  /\ manifestFile' = packagesData
  /\ built' = [files |-> files, dirs |-> dirs, metadata |-> LoadedMetadata]
  /\ outcome' = "ok"
  /\ pc' = "idle"
  /\ NotFailed
  /\ UNCHANGED <<params, tree, metadataFile, walker, packagesData, clock, budget,
                 history, before>>

\* fs.writeFileSync throws: the file could not be opened (it is as it was) or
\* the write stopped part-way (a truncated document); the error propagates
WriteManifestFails ==
  /\ pc = "write"
  /\ MayFail
  /\ Failed
  /\ \E left \in {manifestFile, [state |-> "partial"]} :
       /\ manifestFile' = left
       /\ built' = IF left = manifestFile THEN built ELSE Absent
  /\ UNCHANGED before
  /\ outcome' = "error"
  /\ pc' = "idle"
  /\ UNCHANGED <<params, tree, metadataFile, walker, packagesData, clock, budget,
                 history>>

(***************************************************************************)
(* Outside the pipeline                                                    *)
(***************************************************************************)
\* the asset files the builder counts: in a v-prefixed directory of a
\* top-level directory other than .git
Counted(f) ==
  { q \in DOMAIN f : q[1] # ".git" /\ StartsWith(q[2], "v") /\ q[3] \in AssetFileNames }

\* someone deletes one counted asset file while nothing runs (and a
\* manifest stage can still follow)
DeleteOutOfBand ==
  /\ pc = "idle"
  /\ outOfBand < MaxOutOfBand
  /\ rebuilds < MaxRebuilds
  /\ manifestFile.state = "complete"
  /\ outOfBand' = outOfBand + 1
  /\ \E q \in Counted(files) : files' = Without(files, {q})
  /\ NotFailed
  /\ UNCHANGED <<params, dirs, metadataFile, manifestFile, pc, walker, packagesData, outcome,
                 clock, runs, rebuilds, history, stage>>

Next ==
  \/ SyncStart \/ ListRepositoriesThrows \/ SyncLoopExit
  \/ ReleaseEnumerationThrows \/ NoPublishedReleases \/ EnterRepository \/ LeaveRepository
  \/ ReleaseWithoutAssets \/ EnterRelease \/ LeaveRelease
  \/ SkipTooLarge \/ SkipExisting \/ BeginDownload
  \/ DownloadSucceeds \/ DownloadFails \/ Backoff
  \/ HashSucceeds \/ HashFails
  \/ StoreMetadata
  \/ GenerateStart \/ Cleanup \/ CleanupRepositoryFails \/ CleanupThrows
  \/ Generate \/ WriteManifest \/ WriteManifestFails

\* the pipeline: sync runs, each followed by the manifest stage
Spec == Init /\ [][Next]_vars


(***************************************************************************)
(* The manifest stage alone (generatePackagesWithCleanup as an entry point *)
(* of its own), on any tree: release directories with and without the      *)
(* prefix, with and without assets, hash files or a README; asset files    *)
(* deleted between two stages.                                             *)
(***************************************************************************)
Merge(t, u) == [files |-> [ q \in (DOMAIN t.files) \cup (DOMAIN u.files) |->
                              IF q \in DOMAIN u.files THEN u.files[q] ELSE t.files[q] ],
                dirs  |-> t.dirs \cup u.dirs]

Dir(top, sub, fs) == [files |-> fs, dirs |-> { <<top, sub>> }]

TreePieces ==
  << Dir("r1", "v10", Put(WithHashes(<<>>, <<"r1", "v10", "a.zip">>, SmallSize),
                          <<"r1", "v10", "b.zip">>, SmallSize)),
     Dir("r1", "v9", WithHashes(<<>>, <<"r1", "v9", "a.zip">>, SmallSize)),
     Dir("r1", "v2", Put(<<>>, <<"r1", "v2", "a.zip.md5">>, HexLength("md5"))),
     Dir("r2", "latest", WithHashes(<<>>, <<"r2", "latest", "a.zip">>, SmallSize)),
     Dir("r2", "v1", Put(Put(<<>>, <<"r2", "v1", "README.md">>, SmallSize),
                         <<"r2", "v1", "a.zip">>, TruncatedSize)),
     Dir("r3", "v1", WithHashes(<<>>, <<"r3", "v1", "a.zip">>, maxSizeBytes + 1)),
     Dir("r3", "latest", Put(<<>>, <<"r3", "latest", "a.zip">>, SmallSize)) >>

RECURSIVE TreeOf(_, _)
TreeOf(chosen, i) ==
  IF i = 0 THEN EmptyTree
  ELSE IF i \in chosen THEN Merge(TreeOf(chosen, i - 1), TreePieces[i])
  ELSE TreeOf(chosen, i - 1)

StageTrees == { TreeOf(chosen, Len(TreePieces)) : chosen \in SUBSET (1..Len(TreePieces)) }

\* repo-metadata.json as the manifest stage may find it: as a sync run may
\* have left it, or with a content JSON.parse throws on
StageMetadata == InitialMetadata \cup { [state |-> "garbage"] }

InitStage ==
  \E t \in StageTrees, m \in StageMetadata :
    Start(Configuration(BaseUpstream, t, m, FALSE, 0))

NextStage ==
  \/ GenerateStartAlone \/ Cleanup \/ CleanupRepositoryFails \/ CleanupThrows
  \/ Generate \/ WriteManifest \/ WriteManifestFails
  \/ DeleteOutOfBand

SpecStage == InitStage /\ [][NextStage]_vars

(***************************************************************************)
(* One sync run alone (syncAssetsWithMetadata as an entry point of its     *)
(* own), from every configuration, up to the point where it has ended.     *)
(***************************************************************************)
\* the configurations of Init, and an upstream that lists r2's releases with
\* the older version first
\* a worktree that holds what upstream does not list next to what it does:
\* r1/v10/a.zip larger than the ceiling, a release r1/v1 and a release
\* r2/latest that upstream does not have, and an asset b.zip in r2/v1
LeftoverTree ==
  [files |-> WithHashes(WithHashes(WithHashes(WithHashes(GitFiles,
                <<"r1", "v10", "a.zip">>, maxSizeBytes + 1),
                <<"r1", "v1", "a.zip">>, SmallSize),
                <<"r2", "latest", "a.zip">>, SmallSize),
                <<"r2", "v1", "b.zip">>, SmallSize),
   dirs  |-> GitDirs \cup { <<"r1", "v10">>, <<"r1", "v1">>, <<"r2", "latest">>, <<"r2", "v1">> }]

RunConfigurations ==
  Configurations
  \cup { Configuration(UpstreamOf(maxSizeBytes + 1, "published", "plain", "b.zip"),
                       LeftoverTree, Absent, FALSE, 0) }
  \cup { Configuration(UpstreamOf(SmallSize, "published", "backport", "b.zip"),
                       EmptyTree, Absent, pr, 0) : pr \in BOOLEAN }

InitRun == \E c \in RunConfigurations : Start(c)

NextRun ==
  \/ SyncStart \/ ListRepositoriesThrows \/ SyncLoopExit
  \/ ReleaseEnumerationThrows \/ NoPublishedReleases \/ EnterRepository \/ LeaveRepository
  \/ ReleaseWithoutAssets \/ EnterRelease \/ LeaveRelease
  \/ SkipTooLarge \/ SkipExisting \/ BeginDownload
  \/ DownloadSucceeds \/ DownloadFails \/ Backoff
  \/ HashSucceeds \/ HashFails
  \/ StoreMetadata

SpecRun == InitRun /\ [][NextRun]_vars

\* a sync run in which creating a release directory may fail as well
NextCounters == NextRun \/ EnsureDirThrows

SpecCounters == InitRun /\ [][NextCounters]_vars

\* a sync run goes on: every await resumes, with a result or an error
SpecRunFair == InitRun /\ [][NextRun]_vars /\ WF_vars(NextRun)

(***************************************************************************)
(* The pipeline repeated under a quota, nothing failing                    *)
(***************************************************************************)
\* an empty worktree, any of the upstreams, a quota, not a constrained run
PipelineConfigurations ==
  { Configuration(u, EmptyTree, Absent, FALSE, k) : u \in Upstreams, k \in 1..MaxQuota }

InitPipeline == \E c \in PipelineConfigurations : Start(c)

\* sync run, cleaner, builder, write, and again; no operation fails
NextPipeline ==
  \/ SyncStartAgain \/ SyncLoopExit
  \/ NoPublishedReleases \/ EnterRepository \/ LeaveRepository
  \/ ReleaseWithoutAssets \/ EnterRelease \/ LeaveRelease
  \/ SkipTooLarge \/ SkipExisting \/ BeginDownload
  \/ DownloadSucceeds \/ HashSucceeds
  \/ StoreMetadata
  \/ GenerateStart \/ Cleanup \/ Generate \/ WriteManifest

\* the builder's step seen from outside: it can be taken whenever the
\* builder is next, and within NextPipeline it is a step of Generate
GenerateStep == pc = "generate" /\ pc' = "write"

\* the program is one thread and the schedule starts it again: a step that
\* can be taken is taken in the end
FairPipeline ==
  /\ WF_vars(SyncStartAgain) /\ WF_vars(SyncLoopExit)
  /\ WF_vars(NoPublishedReleases) /\ WF_vars(EnterRepository) /\ WF_vars(LeaveRepository)
  /\ WF_vars(ReleaseWithoutAssets) /\ WF_vars(EnterRelease) /\ WF_vars(LeaveRelease)
  /\ WF_vars(SkipTooLarge) /\ WF_vars(SkipExisting) /\ WF_vars(BeginDownload)
  /\ WF_vars(DownloadSucceeds) /\ WF_vars(HashSucceeds)
  /\ WF_vars(StoreMetadata)
  /\ WF_vars(GenerateStart) /\ WF_vars(Cleanup) /\ WF_pc(GenerateStep) /\ WF_vars(WriteManifest)

SpecPipeline == InitPipeline /\ [][NextPipeline]_vars /\ FairPipeline

(***************************************************************************)
(* The release ordering, on repositories whose release directories carry   *)
(* up to MaxTags of these tags                                             *)
(***************************************************************************)
MaxTags == 3

SortTags == {"v1.9.0", "v1.10.0", "v2.0.0", "v2.0", "v02.0", "v2.0-rc", "v2.0-RC",
             "v10.0", "v9", "v10"}

RECURSIVE TagTree(_)
TagTree(tags) ==
  IF tags = {} THEN EmptyTree
  ELSE LET t == CHOOSE x \in tags : TRUE
       IN  Merge(TagTree(tags \ {t}),
                 Dir("r1", t, Put(<<>>, <<"r1", t, "a.zip">>, SmallSize)))

InitSort ==
  \E tags \in { T \in SUBSET SortTags : Cardinality(T) <= MaxTags } :
    Start(Configuration(BaseUpstream, TagTree(tags), Absent, FALSE, 0))

NextSort == GenerateStartAlone \/ Cleanup \/ Generate \/ WriteManifest

SpecSort == InitSort /\ [][NextSort]_vars


(***************************************************************************)
(* Properties                                                              *)
(***************************************************************************)
Range(s) == { s[i] : i \in DOMAIN s }

\* every asset the upstream lists, with its destination path
UpstreamAssets ==
  UNION { UNION { { [path |-> AssetPath(r, upstream[r][i].tag_name, upstream[r][i].assets[j].name),
                     size |-> upstream[r][i].assets[j].size,
                     published |-> ~upstream[r][i].draft /\ ~upstream[r][i].prerelease] :
                    j \in DOMAIN upstream[r][i].assets } :
                  i \in DOMAIN upstream[r] } :
          r \in DOMAIN upstream }

\* the walker's loop over the repositories has ended
WalkerDone == pc = "store"

\* C1 (as stated): with maxNewAssets = k >= 1 and at least k + 5 upstream
\* assets absent from disk when the run starts, the run never writes more
\* than k asset files in full, and has written exactly k when the walker ends.
C1_QuotaExact ==
  LET offered == { a \in UpstreamAssets : ~fileExists(startFiles, a.path) }
  IN  (maxNewAssets >= 1 /\ Cardinality(offered) >= maxNewAssets + 5) =>
        /\ Cardinality(downloaded) <= maxNewAssets
        /\ WalkerDone => Cardinality(downloaded) = maxNewAssets

SameModuloLastUpdated(m, n) ==
  /\ m.state = "complete" /\ n.state = "complete"
  /\ m.data.repositories = n.data.repositories
  /\ m.data.stats = n.data.stats

\* C2 (as stated, in the most favourable setting: no quota, no release cap,
\* nothing failed): when the pipeline has run twice, the second run has
\* downloaded nothing and its manifest equals the first run's except for
\* lastUpdated.
C2_Idempotent ==
  (/\ runs = 2 /\ pc = "idle" /\ outcome = "ok" /\ faults = 0
   /\ maxNewAssets = 0 /\ ~isPullRequest
   /\ before.manifest.state = "complete")
  => /\ attempted = {}
     /\ SameModuloLastUpdated(before.manifest, manifestFile)

LegacyOversized ==
  { q \in DOMAIN startFiles :
      startFiles[q] > maxSizeBytes /\ q[1] # ".git" /\ q[3] \in AssetFileNames }

AllRepositories == Range(RepoOrder)

\* the entry of the manifest file for a repository, as a set (empty or one)
ManifestEntries(name) ==
  IF manifestFile.state = "complete"
  THEN { e \in Range(manifestFile.data.repositories) : e.name = name }
  ELSE {}

ManifestNames == { r \in TopLevel(dirs) : ManifestEntries(r) # {} }

\* the asset files the builder counts in one release directory
CountedIn(f, top, sub) == { q \in Counted(f) : q[1] = top /\ q[2] = sub }

\* an entry lists exactly the release directories of the tree that hold a
\* counted file, each with the number of those files
ValidEntry(e) ==
  /\ { x.tag : x \in Range(e.releases) } = { q[2] : q \in { c \in Counted(files) : c[1] = e.name } }
  /\ \A x \in Range(e.releases) :
       x.assetCount = Cardinality(CountedIn(files, e.name, x.tag)) /\ x.assetCount > 0

\* C5: when the release enumeration of a repository has thrown, the run goes
\* on: once the walker has ended every later repository has been asked for
\* its releases (unless the quota ended the run), and the manifest written
\* after the run has a valid entry for every other repository with counted
\* files on disk.
C5_Isolation ==
  /\ (threw # {} /\ pc \in {"store", "synced", "cleanup", "generate", "write", "idle"}) =>
       \A i, j \in DOMAIN RepoOrder :
         (RepoOrder[i] \in threw /\ j > i) =>
           \/ RepoOrder[j] \in listed
           \/ LimitReached(sync.newAssetsDownloaded)
  /\ (threw # {} /\ pc = "idle" /\ outcome = "ok") =>
       \A r \in AllRepositories \ threw :
         (\E q \in Counted(files) : q[1] = r) =>
           /\ ManifestEntries(r) # {}
           /\ \A e \in ManifestEntries(r) : ValidEntry(e)

\* of three repositories the second threw; the first and the third are in
\* the manifest written after the run, with the assets the run downloaded
C5_FirstAndThird ==
  /\ pc = "idle" /\ outcome = "ok"
  /\ threw = {"r2"}
  /\ ManifestNames = {"r1", "r3"}
  /\ \E p \in downloaded : p[1] = "r1"
  /\ \E p \in downloaded : p[1] = "r3"

CleanedExcept(exempt) ==
  /\ \A d \in dirs : (~CleanerSkips(d[1]) /\ d[1] \notin exempt) => StartsWith(d[2], "v")
  /\ \A q \in DOMAIN files : (~CleanerSkips(q[1]) /\ q[1] \notin exempt) => StartsWith(q[2], "v")
  /\ \A d \in before.dirs : StartsWith(d[2], "v") => d \in dirs
  /\ \A q \in DOMAIN before.files :
       StartsWith(q[2], "v") => fileExists(files, q) /\ files[q] = before.files[q]
  /\ dirs \subseteq before.dirs
  /\ DOMAIN files \subseteq DOMAIN before.files

\* no release of the manifest lacks the prefix, and each is a directory of
\* the tree the manifest was built from
ManifestConforms ==
  (pc = "idle" /\ manifestFile.state = "complete") =>
    \A e \in Range(manifestFile.data.repositories) :
      \A x \in Range(e.releases) :
        StartsWith(x.tag, "v") /\ <<e.name, x.tag>> \in built.dirs

\* C7 (as stated): when the cleaner has run, the tree is cleaned under every
\* top-level directory that is not skipped, the prefixed directories are
\* unchanged, and the manifest has no release without the prefix.
C7_Cleaner ==
  /\ pc \in {"generate", "write"} => CleanedExcept({})
  /\ ManifestConforms

\* C7 (amended): the same, for the top-level directories whose cleanup did
\* not fail; where it failed, directories without the prefix may remain on
\* disk, but none of them is in the manifest.
C7_CleanerWhereNotFailed ==
  /\ pc \in {"generate", "write"} => CleanedExcept(before.failed)
  /\ ManifestConforms

\* the cleaner removed r2/latest with its files and left r2/v1
C7_LatestRemoved ==
  /\ pc = "generate"
  /\ <<"r2", "latest">> \in before.dirs
  /\ fileExists(before.files, <<"r2", "latest", "a.zip">>)
  /\ <<"r2", "latest">> \notin dirs
  /\ ~fileExists(files, <<"r2", "latest", "a.zip">>)
  /\ <<"r2", "v1">> \in dirs
  /\ fileExists(files, <<"r2", "v1", "a.zip">>)

\* the place of each tag in ascending version order: digit runs by their
\* value, upper and lower case alike, a tag before its extensions
VersionRank(tag) ==
  CASE tag = "v1.9.0" -> 1
    [] tag = "v1.10.0" -> 2
    [] tag \in {"v2.0", "v02.0"} -> 3
    [] tag \in {"v2.0-rc", "v2.0-RC"} -> 4
    [] tag = "v2.0.0" -> 5
    [] tag = "v9" -> 6
    [] tag = "v10" -> 7
    [] tag = "v10.0" -> 8

\* C8: in every repository entry of the manifest, of two adjacent releases
\* the earlier has the version of the later or a greater one, and the
\* releases v1.9.0, v1.10.0, v2.0.0 come out as v2.0.0, v1.10.0, v1.9.0.
C8_ReleaseOrder ==
  manifestFile.state = "complete" =>
    \A e \in Range(manifestFile.data.repositories) :
      /\ \A i \in 1..(Len(e.releases) - 1) :
           VersionRank(e.releases[i].tag) >= VersionRank(e.releases[i + 1].tag)
      /\ { x.tag : x \in Range(e.releases) } = {"v1.9.0", "v1.10.0", "v2.0.0"} =>
           [ i \in 1..3 |-> e.releases[i].tag ] = <<"v2.0.0", "v1.10.0", "v1.9.0">>

\* the manifest of a tree with the releases v1.9.0, v1.10.0 and v2.0.0
C8_Example ==
  /\ manifestFile.state = "complete"
  /\ SubDirs(dirs, "r1") = {"v1.9.0", "v1.10.0", "v2.0.0"}
  /\ \E e \in Range(manifestFile.data.repositories) :
       e.name = "r1" /\ Len(e.releases) = 3 /\ e.releases[2].tag = "v1.10.0"

\* C9 (as stated): an asset file a sync run has written in full and that is
\* on disk has its three hash files next to it once the processor has
\* returned for it.
C9_Hashed ==
  \A p \in downloaded :
    (fileExists(files, p) /\ ~(pc = "hash" /\ fetch.path = p)) =>
      HashPaths(p) \subseteq DOMAIN files

\* C10: a download makes at most 3 attempts and at most one of them
\* succeeds; after a success the fetcher is no longer running; it has thrown
\* exactly when 3 attempts were made and none succeeded; the attempt number
\* is one more than the attempts made, so 1 when a download begins.
C10_Retry ==
  /\ fetch.tries <= 3
  /\ fetch.oks <= 1
  /\ fetch.oks = 1 <=> fetch.end = "ok"
  /\ fetch.end = "ok" => pc \notin {"download", "backoff"}
  /\ fetch.end = "error" <=> (fetch.tries = 3 /\ fetch.oks = 0)
  /\ fetch.end = "running" <=> pc \in {"download", "backoff"}
  /\ pc = "download" => attempt = fetch.tries + 1
  /\ pc = "backoff" => attempt = fetch.tries
  /\ pc = "hash" => fetch.end = "ok"

\* one asset's download has used up its attempts and the next asset's
\* download begins
C10_NextAssetStartsAtOne ==
  /\ pc = "download"
  /\ fetch.tries = 0 /\ attempt = 1
  /\ \E p \in attempted : p \notin downloaded /\ p # fetch.path

\* C11 (as stated): when the last attempt of a download has failed, no file,
\* whole or truncated, is at the asset's destination path.
C11_NoPartialFile ==
  fetch.end = "error" => ~fileExists(files, fetch.path)

\* C12 (as stated): the manifest file is absent, or the whole manifest that
\* was there when the manifest stage began, or the whole manifest the stage
\* generated; it is never a partly written document.
C12_AllOrNothing ==
  \/ manifestFile = Absent
  \/ manifestFile.state = "complete" /\ manifestFile = before.manifest
  \/ manifestFile.state = "complete" /\ manifestFile = packagesData

\* the file names of the model that are neither hash artifacts nor README.md
QualifyingNames == {"a.zip", "b.zip", "pack"}

\* C13: in the manifest the builder has generated, every repository entry has
\* at least one release entry, and every release entry has an assetCount of
\* at least 1 that is the number of files of its release directory that are
\* neither *.sha256, *.sha512, *.md5 nor README.md.
C13_Counts ==
  pc = "write" =>
    \A e \in Range(packagesData.data.repositories) :
      /\ Len(e.releases) >= 1
      /\ \A x \in Range(e.releases) :
           /\ x.assetCount >= 1
           /\ <<e.name, x.tag>> \in dirs
           /\ x.assetCount = Cardinality(FilesIn(files, e.name, x.tag) \cap QualifyingNames)

\* a manifest generated from a tree where r1/v10 holds two assets and their
\* hash files, r1/v2 holds only a hash file and r2/v1 an asset and a README
C13_ReadmeAndHashesNotCounted ==
  /\ pc = "write"
  /\ FilesIn(files, "r1", "v2") = {"a.zip.md5"}
  /\ "README.md" \in FilesIn(files, "r2", "v1")
  /\ \E e \in Range(packagesData.data.repositories) :
       e.name = "r1" /\ Len(e.releases) = 1
       /\ e.releases[1].tag = "v10" /\ e.releases[1].assetCount = 2
  /\ \E e \in Range(packagesData.data.repositories) :
       e.name = "r2" /\ \E x \in Range(e.releases) : x.tag = "v1" /\ x.assetCount = 1

\* the place of each repository name in ascending order
RepositoryRank(name) ==
  CASE name = "r1" -> 1
    [] name = "r2" -> 2
    [] name = "r3" -> 3

\* the sum of the numbers of a sequence
RECURSIVE SumOver(_)
SumOver(ns) == IF Len(ns) = 0 THEN 0 ELSE ns[Len(ns)] + SumOver(SubSeq(ns, 1, Len(ns) - 1))

SortedAndSummed(d) ==
  LET rs == d.repositories
  IN  /\ \A i \in 1..(Len(rs) - 1) : RepositoryRank(rs[i].name) < RepositoryRank(rs[i + 1].name)
      /\ d.stats.totalRepositories = Len(rs)
      /\ d.stats.totalReleases = SumOver([ i \in 1..Len(rs) |-> Len(rs[i].releases) ])
      /\ d.stats.totalAssets =
           SumOver([ i \in 1..Len(rs) |->
                     SumOver([ j \in 1..Len(rs[i].releases) |-> rs[i].releases[j].assetCount ]) ])

\* C14: in the manifest the builder has generated, and in the manifest file
\* written from it, the repositories are in ascending order of their names,
\* totalRepositories is the number of repository entries, totalReleases the
\* sum of their numbers of releases and totalAssets the sum of the assetCount
\* of all their releases.
C14_SortedWithExactStats ==
  /\ pc = "write" => SortedAndSummed(packagesData.data)
  /\ manifestFile.state = "complete" => SortedAndSummed(manifestFile.data)

\* a manifest of three repositories with four releases and five assets
C14_ThreeRepositories ==
  /\ manifestFile.state = "complete"
  /\ Len(manifestFile.data.repositories) = 3
  /\ [ i \in 1..3 |-> manifestFile.data.repositories[i].name ] = <<"r1", "r2", "r3">>
  /\ manifestFile.data.stats = [totalRepositories |-> 3, totalReleases |-> 4, totalAssets |-> 5]

\* the records of an overlay with a given name
OverlayRecords(metadata, name) == { m \in Range(metadata) : m.name = name }

ArchivedFromOverlay(d, metadata) ==
  \A e \in Range(d.repositories) :
    /\ "archived" \in DOMAIN e
    /\ e.archived \in BOOLEAN
    /\ OverlayRecords(metadata, e.name) = {} => e.archived = FALSE
    /\ \A m \in OverlayRecords(metadata, e.name) : e.archived = m.archived

\* C15 (as stated): every repository entry of a generated manifest has a
\* boolean archived flag, that of the overlay record of the same name when
\* there is one and false otherwise, whatever record list the overlay file
\* holds, the one the walker accumulates included.
C15_Archived ==
  pc = "write" => ArchivedFromOverlay(packagesData.data, LoadedMetadata)

\* C16 (as stated): when the walker's run has completed and
\* syncAssetsWithMetadata has returned, it has ended without error and
\* repo-metadata.json holds the list of repository records the walker
\* accumulated.
C16_ListStored ==
  pc = "synced" =>
    /\ outcome = "ok"
    /\ metadataFile = [state |-> "json", data |-> sync.repositoryData]

\* the releases the upstream marks as draft or prerelease, as <<repository, tag>>
UnpublishedReleases ==
  UNION { { <<r, upstream[r][i].tag_name>> :
            i \in { k \in DOMAIN upstream[r] : upstream[r][k].draft \/ upstream[r][k].prerelease } } :
          r \in DOMAIN upstream }

\* C17: for a release marked draft or prerelease the walker creates no
\* release directory, calls the asset processor for none of its assets,
\* attempts no download and writes no file, and keeps no release record; a
\* run without limits and failures ends with totalAssets the number of
\* assets of published releases that are within the size limit.
C17_OnlyPublished ==
  /\ \A d \in UnpublishedReleases : d \notin dirs
  /\ \A a \in UpstreamAssets :
       ~a.published =>
         /\ a.path \notin entered \cup attempted \cup wrote
         /\ ~fileExists(files, a.path)
         /\ pc \in {"download", "backoff", "hash"} => fetch.path # a.path
  /\ \A x \in Range(repository.releases) : <<repository.name, x.tag>> \notin UnpublishedReleases
  /\ \A rec \in Range(sync.repositoryData) :
       \A x \in Range(rec.releases) : <<rec.name, x.tag>> \notin UnpublishedReleases
  /\ (pc = "store" /\ faults = 0 /\ maxNewAssets = 0 /\ ~isPullRequest) =>
       sync.totalAssets =
         Cardinality({ a \in UpstreamAssets : a.published /\ a.size <= maxSizeBytes })

\* the walk has ended on an upstream where r1/v9 is a draft or a prerelease:
\* the release listed after it was processed, r1/v9 was not
C17_DraftPassedOver ==
  /\ pc = "store"
  /\ <<"r1", "v9">> \in UnpublishedReleases
  /\ <<"r1", "v2", "a.zip">> \in downloaded
  /\ <<"r1", "v9">> \notin dirs
  /\ sync.totalAssets = 6

\* C18: in a constrained run a release is processed only while fewer than 2
\* releases of the repository have yielded an asset, so at most 2 do; a
\* release record stands for a yield of at least one asset, and a release
\* processed without yield leaves no record and does not count; without a
\* quota the loop over a repository's releases ends only when every
\* published release was processed, or, in a constrained run, when 2 have
\* yielded.
C18_ReleaseCap ==
  /\ \A x \in Range(repository.releases) : x.assetCount >= 1
  /\ Len(repository.releases) = repository.processedReleasesWithAssets
  /\ Len(repository.releases) <= repository.relIdx
  /\ isPullRequest => Len(repository.releases) <= 2
  /\ (isPullRequest /\ pc \in {"assets", "download", "backoff", "hash"}) =>
       Len(repository.releases) < 2
  /\ (pc = "repos" /\ repository.name # "" /\ maxNewAssets = 0) =>
       \/ repository.relIdx > Len(repository.publishedReleases)
       \/ isPullRequest /\ Len(repository.releases) = 2

\* a constrained run has left r1 after two of its three published releases
\* yielded assets; the third was not processed
C18_ThirdReleaseNotProcessed ==
  /\ isPullRequest
  /\ pc = "repos"
  /\ repository.name = "r1"
  /\ Len(repository.publishedReleases) = 3
  /\ repository.relIdx = 3
  /\ Len(repository.releases) = 2
  /\ <<"r1", "v2">> \notin dirs

\* C19: when processAsset is called for an asset within the size limit whose
\* destination file is on disk and within the limit, the step it takes
\* changes no file and no directory, makes no download attempt, and the
\* release counts one more asset and no more new assets.
C19_AlreadyPresent ==
  [][ ( /\ pc = "assets"
        /\ ~AssetLoopEnds
        /\ CurAsset.size <= maxSizeBytes
        /\ CurPath \in DOMAIN files
        /\ files[CurPath] <= maxSizeBytes )
      => ( /\ files' = files
           /\ dirs' = dirs
           /\ attempted' = attempted
           /\ downloaded' = downloaded
           /\ wrote' = wrote
           /\ removed' = removed
           /\ pc' = "assets"
           /\ entered' = entered \cup {CurPath}
           /\ release'.assetIdx = release.assetIdx + 1
           /\ release'.assetCount = release.assetCount + 1
           /\ release'.newAssets = release.newAssets ) ]_vars

\* r1/v10/a.zip was on disk with its hash files when the run started; the
\* processor has returned for it: counted, not new, nothing touched
C19_Skipped ==
  /\ pc = "assets"
  /\ repository.name = "r1" /\ repository.relIdx = 1
  /\ release.assetIdx = 2
  /\ fileExists(startFiles, <<"r1", "v10", "a.zip">>)
  /\ entered = { <<"r1", "v10", "a.zip">> }
  /\ release.assetCount = 1 /\ release.newAssets = 0
  /\ files = startFiles
  /\ attempted = {} /\ wrote = {} /\ removed = {}

\* C20: a sync run that ends before the walker's loop (the listing of the
\* repositories threw) ends in an error, with the tree as it was and nothing
\* processed or downloaded; a manifest stage whose write does not leave the
\* generated manifest in the file ends in an error.
C20_Propagates ==
  [][ /\ (runs' = runs + 1 /\ sync' = NoSync) =>
           /\ outcome' = "error"
           /\ pc' = "idle"
           /\ files' = files /\ dirs' = dirs
           /\ metadataFile' = metadataFile /\ manifestFile' = manifestFile
           /\ listed' = {} /\ entered' = {} /\ attempted' = {}
           /\ downloaded' = {} /\ wrote' = {}
      /\ (pc = "write" /\ manifestFile' # packagesData) =>
           /\ outcome' = "error"
           /\ pc' = "idle" ]_vars

\* the second run's listing of the repositories threw: the run is over in an
\* error and the tree is the one the first run and its manifest stage left
C20_ListingFailed ==
  /\ runs = 2
  /\ pc = "idle"
  /\ sync = NoSync
  /\ outcome = "error"
  /\ manifestFile.state = "complete"
  /\ files = startFiles
  /\ listed = {}

\* the fetcher is working on path p
InFlight(p) == pc \in {"download", "backoff"} /\ fetch.path = p

\* the asset paths whose download used up its attempts in this run
Exhausted == { p \in attempted : p \notin downloaded /\ ~InFlight(p) }

\* the asset paths downloaded in this run whose three hash files were written
Hashed == { p \in downloaded : HashPaths(p) \subseteq wrote }

\* the asset paths downloaded in this run whose hashing failed
HashFailed == { p \in downloaded : ~(pc = "hash" /\ fetch.path = p) /\ p \notin Hashed }

\* the assets of the published releases of the repositories in R
PublishedPaths(R) == { a.path : a \in { b \in UpstreamAssets : b.published /\ b.path[1] \in R } }

\* C21: an asset whose download has used up its attempts does not end the
\* run: the walker goes on and, when no quota or release cap applies, reaches
\* its end having processed every asset of every published release of every
\* repository whose enumeration did not throw; the asset is in neither
\* counter: totalAssets is the number of processed assets within the size
\* limit other than those whose download or hashing failed, and
\* newAssetsDownloaded is the number of assets downloaded and hashed.
C21_ExhaustionConfined ==
  /\ Exhausted # {} => outcome # "error" \/ pc = "synced"
  /\ (pc = "store" /\ Exhausted # {} /\ maxNewAssets = 0 /\ ~isPullRequest) =>
       /\ PublishedPaths(AllRepositories \ threw) \subseteq entered
       /\ sync.totalAssets = Cardinality((entered \ gated) \ (Exhausted \cup HashFailed))
       /\ sync.newAssetsDownloaded = Cardinality(Hashed)
       /\ \A p \in Exhausted :
            \A rec \in Range(sync.repositoryData) :
              \A x \in Range(rec.releases) :
                (rec.name = p[1] /\ x.tag = p[2]) =>
                  x.assetCount = Cardinality({ q \in (entered \ gated) \ (Exhausted \cup HashFailed) :
                                               q[1] = p[1] /\ q[2] = p[2] })

\* the download of r1/v10/a.zip used up its attempts; the walker has ended
\* after processing b.zip of the same release and the releases and
\* repositories after it, and counted the six other assets
C21_OthersProcessed ==
  /\ pc = "store"
  /\ maxNewAssets = 0 /\ ~isPullRequest
  /\ Exhausted = { <<"r1", "v10", "a.zip">> }
  /\ { <<"r1", "v10", "b.zip">>, <<"r1", "v2", "a.zip">>, <<"r3", "v1", "b.zip">> } \subseteq Hashed
  /\ sync.totalAssets = 6
  /\ sync.newAssetsDownloaded = 6

\* newAssetsDownloaded with what the running calls of processRepository and
\* processRelease have not yet handed back
NewAssetCounter ==
  sync.newAssetsDownloaded
  + (IF pc \in {"releases", "assets", "download", "backoff", "hash"}
     THEN repository.repoNewAssets ELSE 0)
  + (IF pc \in {"assets", "download", "backoff", "hash"} THEN release.newAssets ELSE 0)

\* C22: in a run with a quota k > 0 the new-asset counter is the number of
\* assets downloaded and hashed in the run and is never above k; when it is
\* k the fetcher and the hasher are not at work and no error was raised; and
\* a step the walker takes from a state where it is k processes no asset,
\* attempts no download, removes and writes no file, creates no directory,
\* asks no repository for its releases and raises no error.
C22_QuotaStops ==
  /\ [](maxNewAssets > 0 =>
          /\ NewAssetCounter <= maxNewAssets
          /\ pc \in {"repos", "releases", "assets", "download", "backoff", "hash", "store"} =>
               NewAssetCounter = Cardinality(Hashed)
          /\ (NewAssetCounter = maxNewAssets
              /\ pc \in {"repos", "releases", "assets", "download", "backoff", "hash", "store"}) =>
               /\ pc \notin {"download", "backoff", "hash"}
               /\ outcome = "none")
  /\ [][ (/\ maxNewAssets > 0
          /\ pc \in {"repos", "releases", "assets"}
          /\ NewAssetCounter = maxNewAssets) =>
           /\ entered' = entered
           /\ attempted' = attempted
           /\ removed' = removed /\ wrote' = wrote
           /\ files' = files /\ dirs' = dirs
           /\ listed' = listed
           /\ outcome' = "none"
           /\ pc' \in {"repos", "releases", "store"} ]_vars

\* a run with quota 1 has ended after one new asset: the second asset of the
\* release was not processed and no other repository was asked for releases
C22_StoppedAtQuota ==
  /\ pc = "store"
  /\ maxNewAssets = 1
  /\ sync.newAssetsDownloaded = 1
  /\ Hashed = { <<"r1", "v10", "a.zip">> }
  /\ entered = { <<"r1", "v10", "a.zip">> }
  /\ listed = {"r1"}
  /\ outcome = "none"

\* C23: an asset that was downloaded and whose hashing failed is counted
\* neither as an asset of its release nor as new: the new-asset counter is
\* the number of assets downloaded and hashed; at the end of a walk without
\* quota and release cap totalAssets leaves the asset out; and in a walk with
\* a quota in which no download was exhausted and no enumeration threw the
\* quota is still filled by other assets.
C23_HashFailureNotCounted ==
  /\ pc \in {"repos", "releases", "assets", "download", "backoff", "hash", "store"} =>
       /\ NewAssetCounter = Cardinality(Hashed)
       /\ Hashed \cap HashFailed = {}
       /\ pc = "assets" =>
            release.assetCount =
              Cardinality({ q \in (entered \ gated) \ (Exhausted \cup HashFailed) :
                            q[1] = repository.name /\ q[2] = CurRelease.tag_name })
  /\ (pc = "store" /\ HashFailed # {} /\ maxNewAssets = 0 /\ ~isPullRequest) =>
       sync.totalAssets = Cardinality(((entered \ gated) \ Exhausted) \ HashFailed)
  /\ (pc = "store" /\ HashFailed # {} /\ maxNewAssets > 0 /\ Exhausted = {} /\ threw = {}) =>
       Cardinality(Hashed) = maxNewAssets

\* with quota 1, r1/v10/a.zip was downloaded and its hashing failed; the run
\* went on to b.zip, which filled the quota
C23_QuotaNotConsumed ==
  /\ pc = "store"
  /\ maxNewAssets = 1
  /\ HashFailed = { <<"r1", "v10", "a.zip">> }
  /\ fileExists(files, <<"r1", "v10", "a.zip">>)
  /\ Hashed = { <<"r1", "v10", "b.zip">> }
  /\ sync.totalAssets = 1
  /\ sync.newAssetsDownloaded = 1

\* the assets within the size limit that the run was called for and whose
\* file was on disk over the limit when the run started
LegacyWithinLimit ==
  { a.path : a \in { b \in UpstreamAssets :
                       /\ b.published /\ b.size <= maxSizeBytes
                       /\ b.path \in entered
                       /\ fileExists(startFiles, b.path)
                       /\ startFiles[b.path] > maxSizeBytes } }

OwnPaths(p) ==
  { p, <<p[1], p[2], p[3] \o ".sha256">>, <<p[1], p[2], p[3] \o ".sha512">>,
    <<p[1], p[2], p[3] \o ".md5">> }

\* the asset processAsset is about to be called for, or is working on
AssetAtWork ==
  IF pc = "assets" /\ ~AssetLoopEnds THEN {CurPath}
  ELSE IF pc \in {"download", "backoff", "hash"} THEN {fetch.path}
  ELSE {}

\* C25: a step of the processing of one asset (the size and existence
\* checks, an eviction, a download attempt that succeeds or fails, a wait, a
\* hashing that succeeds or fails) leaves every path other than the asset's
\* destination and its three hash files as it was, present or absent, and
\* creates and removes no directory.
C25_OwnPathsOnly ==
  [][ \A p \in AssetAtWork :
        /\ dirs' = dirs
        /\ \A q \in (DOMAIN files \cup DOMAIN files') \ OwnPaths(p) :
             /\ q \in DOMAIN files /\ q \in DOMAIN files'
             /\ files'[q] = files[q]
        /\ (wrote' \ wrote) \cup (removed' \ removed) \subseteq OwnPaths(p)
        /\ metadataFile' = metadataFile /\ manifestFile' = manifestFile ]_vars

\* b.zip of r1/v10 was downloaded and hashed next to a.zip, which was on
\* disk with its hash files and is as it was
C25_SiblingUntouched ==
  /\ pc = "assets"
  /\ repository.name = "r1" /\ repository.relIdx = 1 /\ release.assetIdx = 3
  /\ fileExists(startFiles, <<"r1", "v10", "a.zip">>)
  /\ Hashed = { <<"r1", "v10", "b.zip">> }
  /\ \A q \in OwnPaths(<<"r1", "v10", "a.zip">>) :
       fileExists(files, q) /\ fileExists(startFiles, q) /\ files[q] = startFiles[q]
  /\ wrote = OwnPaths(<<"r1", "v10", "b.zip">>)

\* the destination paths of the other assets of the release of the asset at p
SiblingPaths(p) ==
  { a.path : a \in { b \in UpstreamAssets :
                       b.published /\ b.path # p /\ b.path[1] = p[1] /\ b.path[2] = p[2] } }

\* C26 (as stated): a step of the processing of one asset leaves the
\* destination path of every other asset of the same release as it was,
\* present or absent.
C26_SiblingsDisjoint ==
  [][ \A p \in AssetAtWork :
        \A q \in SiblingPaths(p) :
          /\ q \in DOMAIN files <=> q \in DOMAIN files'
          /\ q \in DOMAIN files => files'[q] = files[q] ]_vars

\* the place of each tag of the upstreams in ascending version order
TagRank(tag) ==
  CASE tag = "latest" -> 0
    [] tag = "v1" -> 1
    [] tag = "v2" -> 2
    [] tag = "v9" -> 9
    [] tag = "v10" -> 10

\* what C27 says of one repository record
RecordConforms(rec) ==
  /\ Len(rec.releases) >= 1
  /\ \A x \in Range(rec.releases) : x.assetCount >= 1
  /\ \A i \in 1..(Len(rec.releases) - 1) :
       TagRank(rec.releases[i].tag) > TagRank(rec.releases[i + 1].tag)

\* C27 (as stated): every repository record the walker has accumulated has
\* at least one release, only releases with an assetCount of at least 1, and
\* its releases in descending version order.
C27_RecordsSorted ==
  \A rec \in Range(sync.repositoryData) : RecordConforms(rec)

\* C28: the waits of a download are 1000 ms after the first failed attempt
\* and 2000 ms after the second, one wait between two attempts and none
\* after the third failed attempt or after a success.
C28_Backoff ==
  /\ \A i \in 1..Len(fetch.waits) : fetch.waits[i] = IF i = 1 THEN 1000 ELSE 2000
  /\ Len(fetch.waits) <= 2
  /\ pc = "download" => Len(fetch.waits) = fetch.tries
  /\ pc = "backoff" => Len(fetch.waits) = fetch.tries - 1 /\ fetch.tries < 3
  /\ fetch.end \in {"ok", "error"} => Len(fetch.waits) = fetch.tries - 1
  /\ fetch.end = "error" => fetch.waits = <<1000, 2000>>

\* a download has thrown after three failed attempts and two waits
C28_TwoWaits ==
  /\ fetch.end = "error"
  /\ fetch.tries = 3
  /\ fetch.waits = <<1000, 2000>>
  /\ pc = "assets"

\* C29: the hasher runs only on an asset whose download has just succeeded;
\* a step that writes anything but the destination of the download is a
\* hashing step on a downloaded asset; a download that ends in error is
\* not followed by hashing and counts nothing; and the count of new assets
\* grows only by one, in the hashing step that has written all three hash
\* files of a downloaded asset.
C29_HashAfterDownload ==
  /\ [](pc = "hash" =>
          /\ fetch.path = CurPath
          /\ fetch.end = "ok"
          /\ CurPath \in downloaded
          /\ CurPath \in DOMAIN files /\ files[CurPath] = CurAsset.size)
  /\ [][ /\ (\E q \in wrote' \ wrote : q # fetch'.path) =>
              /\ pc = "hash"
              /\ fetch.path \in downloaded
              /\ wrote' \ wrote \subseteq HashPaths(fetch.path)
         /\ pc' = "hash" => pc = "download" /\ fetch'.end = "ok" /\ fetch'.path \in downloaded'
         /\ (fetch'.end = "error" /\ fetch.end # "error") =>
              /\ pc' = "assets"
              /\ NewAssetCounter' = NewAssetCounter
              /\ fetch.path \notin downloaded'
         /\ NewAssetCounter' > NewAssetCounter =>
              /\ pc = "hash"
              /\ NewAssetCounter' = NewAssetCounter + 1
              /\ fetch.path \in downloaded
              /\ HashPaths(fetch.path) \subseteq wrote' ]_vars

\* one asset was downloaded, hashed and counted, and another failed three
\* times and has none of its hash files
C29_OneHashedOneNot ==
  /\ pc = "assets"
  /\ fetch.end = "error"
  /\ fetch.path \in Exhausted
  /\ \A q \in HashPaths(fetch.path) : q \notin DOMAIN files
  /\ Hashed # {}
  /\ NewAssetCounter = 1

\* the stale directories of the repositories other than the failed ones
StaleElsewhere(d, failed) == { q \in StaleDirs(d) : q[1] \notin failed }

\* C30: the step of the cleaner in which one repository's listing or
\* removal has failed names that one repository, goes on to the builder
\* without ending the stage in error, has removed every stale directory of
\* every other repository with the files in it, and has left every
\* directory that is not stale, with its files, as it was.
C30_FailureIsolated ==
  [][ (pc = "cleanup" /\ before'.failed # {}) =>
        /\ Cardinality(before'.failed) = 1
        /\ pc' = "generate"
        /\ outcome' = outcome
        /\ \A q \in StaleElsewhere(dirs, before'.failed) :
             /\ q \notin dirs'
             /\ \A f \in DOMAIN files' : <<f[1], f[2]>> # q
        /\ \A q \in dirs \ StaleDirs(dirs) :
             /\ q \in dirs'
             /\ \A f \in DOMAIN files :
                  <<f[1], f[2]>> = q => f \in DOMAIN files' /\ files'[f] = files[f] ]_vars

\* the cleaner failed on r2, whose latest directory is still there, and
\* removed the latest directory of r3; the builder is next
C30_OtherRepositoryCleaned ==
  /\ pc = "generate"
  /\ before.failed = {"r2"}
  /\ <<"r2", "latest">> \in dirs
  /\ <<"r3", "latest">> \in before.dirs
  /\ <<"r3", "latest">> \notin dirs
  /\ <<"r3", "latest", "a.zip">> \notin DOMAIN files
  /\ <<"r3", "v1">> \in dirs
  /\ outcome # "error"

\* C31: in the manifest stage the builder starts only from the step in
\* which the cleaner returned, the data are built only in the builder's
\* step, and the manifest file changes only in the write step, which
\* follows the builder's; the step in which the cleaner throws ends the
\* stage in error with no data built, the manifest file as it was and the
\* tree as it was.
C31_CleanerBuilderWrite ==
  [][ /\ pc' = "generate" => pc = "cleanup"
      /\ pc' = "write" => pc = "generate" /\ packagesData'.state = "complete"
      /\ packagesData' # packagesData => pc = "generate" /\ pc' = "write"
      /\ (manifestFile' # manifestFile \/ built' # built) => pc = "write" /\ pc' = "idle"
      /\ (pc = "write" /\ outcome' = "ok") => manifestFile' = packagesData
      /\ (pc = "cleanup" /\ pc' # "generate") =>
           /\ pc' = "idle"
           /\ outcome' = "error"
           /\ packagesData' = packagesData
           /\ manifestFile' = manifestFile
           /\ files' = files /\ dirs' = dirs ]_vars

\* a second manifest stage ended in the cleaner's error: the manifest file
\* and the data are those of the first stage
C31_CleanerRaised ==
  /\ pc = "idle"
  /\ rebuilds = 2
  /\ outcome = "error"
  /\ manifestFile.state = "complete"
  /\ manifestFile = before.manifest
  /\ packagesData = manifestFile

\* the paths of the assets upstream lists, with their hash files
EnumeratedPaths == UNION { OwnPaths(a.path) : a \in UpstreamAssets }

\* the assets of this run whose upstream size, or whose file on disk when
\* the run started, is larger than the ceiling
SizeEvictable ==
  gated \cup { p \in entered : fileExists(startFiles, p) /\ startFiles[p] > maxSizeBytes }

\* C32: during and after a sync run every file that was on disk when the
\* run started and is neither an asset upstream lists nor a hash file of
\* one is on disk with the size it had, every directory is still there, and
\* the paths the run has removed are the destinations and hash files of
\* assets it refused for their size or found on disk larger than the ceiling.
C32_UnlistedUntouched ==
  /\ \A q \in DOMAIN startFiles \ EnumeratedPaths :
       q \in DOMAIN files /\ files[q] = startFiles[q]
  /\ before.dirs \subseteq dirs
  /\ removed \subseteq UNION { OwnPaths(p) : p \in SizeEvictable }
  /\ (wrote \cup removed) \subseteq EnumeratedPaths
  /\ gated \subseteq { a.path : a \in { b \in UpstreamAssets : b.published /\ b.size > maxSizeBytes } }

\* the run is over: it evicted r1/v10/a.zip and downloaded assets, and the
\* files of r1/v1, r2/latest and r2/v1/b.zip, which upstream does not list,
\* are as they were
C32_LeftoversKept ==
  /\ pc = "synced"
  /\ <<"r1", "v10", "a.zip">> \in removed
  /\ downloaded # {}
  /\ \A q \in { <<"r1", "v1", "a.zip">>, <<"r1", "v1", "a.zip.md5">>,
                <<"r2", "latest", "a.zip">>, <<"r2", "v1", "b.zip">> } :
       /\ q \notin EnumeratedPaths
       /\ q \in DOMAIN files /\ files[q] = startFiles[q]

\* where upstream lists an asset: <<repository, release, asset>> indices
Positions ==
  { t \in (DOMAIN RepoOrder) \X (1..3) \X (1..2) :
      /\ t[2] \in DOMAIN upstream[RepoOrder[t[1]]]
      /\ t[3] \in DOMAIN upstream[RepoOrder[t[1]]][t[2]].assets }

PathAt(t) ==
  AssetPath(RepoOrder[t[1]], upstream[RepoOrder[t[1]]][t[2]].tag_name,
            upstream[RepoOrder[t[1]]][t[2]].assets[t[3]].name)

Pos(p) == CHOOSE t \in Positions : PathAt(t) = p

\* q is listed before p
ListedBefore(q, p) ==
  LET a == Pos(q)
      b == Pos(p)
  IN  \/ a[1] < b[1]
      \/ a[1] = b[1] /\ a[2] < b[2]
      \/ a[1] = b[1] /\ a[2] = b[2] /\ a[3] < b[3]

RepoPos(r) == CHOOSE i \in DOMAIN RepoOrder : RepoOrder[i] = r

\* C33: a sync run works on one asset at a time and in the order of the
\* listings.  Repositories are asked for their releases one per step, each
\* after those listed before it; assets are taken up one per step, each
\* after every asset taken up so far in the order repository, release,
\* asset; while a download, a wait or a hashing is under way it is that of
\* the asset taken up last; and a step that writes or removes files does so
\* only at the destination and hash files of the asset taken up last.
C33_OneAtATimeInOrder ==
  /\ [](pc \in {"download", "backoff", "hash"} =>
          /\ fetch.path = CurPath
          /\ CurPath \in entered
          /\ \A q \in entered \ {CurPath} : ListedBefore(q, CurPath))
  /\ [][ /\ Cardinality(listed' \ listed) <= 1
         /\ \A r \in listed' \ listed : \A s \in listed : RepoPos(s) < RepoPos(r)
         /\ Cardinality(entered' \ entered) <= 1
         /\ \A p \in entered' \ entered :
              /\ p \in { PathAt(t) : t \in Positions }
              /\ \A q \in entered : ListedBefore(q, p)
              /\ p[1] \in listed
         /\ (files' # files \/ wrote' # wrote \/ removed' # removed) /\ pc # "idle" =>
              \E p \in entered' :
                /\ \A q \in entered' \ {p} : ListedBefore(q, p)
                /\ (wrote' \ wrote) \cup (removed' \ removed) \subseteq OwnPaths(p)
                /\ \A q \in (DOMAIN files \cup DOMAIN files') \ OwnPaths(p) :
                     q \in DOMAIN files /\ q \in DOMAIN files' /\ files'[q] = files[q] ]_vars

\* the run has taken up assets of all three repositories, the last one being
\* the second asset of r3's release, which is being downloaded
C33_LastAssetAtWork ==
  /\ pc = "download"
  /\ listed = {"r1", "r2", "r3"}
  /\ fetch.path = <<"r3", "v1", "b.zip">>
  /\ {<<"r1", "v10", "a.zip">>, <<"r1", "v10", "b.zip">>, <<"r1", "v9", "a.zip">>,
      <<"r2", "v1", "a.zip">>, <<"r3", "v1", "a.zip">>} \subseteq entered

WithoutArchived(repositories) ==
  [ i \in DOMAIN repositories |->
      [name |-> repositories[i].name, releases |-> repositories[i].releases] ]

\* C35: a manifest stage that found repo-metadata.json missing or not
\* parseable and ended well has written a complete manifest built from the
\* tree with the empty metadata list; in it every repository has archived =
\* false, and its repositories (names, releases, asset counts) and stats
\* are those the builder gives for the same tree with any metadata list.
C35_WithoutMetadata ==
  (pc = "idle" /\ outcome = "ok" /\ metadataFile.state # "json" /\ rebuilds > 0) =>
    /\ manifestFile.state = "complete"
    /\ built.metadata = <<>>
    /\ \A e \in Range(manifestFile.data.repositories) :
         "archived" \in DOMAIN e /\ e.archived = FALSE
    /\ \A m \in { x \in StageMetadata : x.state = "json" }, o \in ReaddirOrders :
         LET with == generatePackagesJson(built.files, built.dirs, m.data, o, 0)
         IN  /\ WithoutArchived(with.repositories)
                  = WithoutArchived(manifestFile.data.repositories)
             /\ with.stats = manifestFile.data.stats

\* a stage that could not parse repo-metadata.json has written a manifest
\* with the three repositories, none archived
C35_GarbageMetadata ==
  /\ pc = "idle" /\ outcome = "ok"
  /\ metadataFile.state = "garbage"
  /\ manifestFile.state = "complete"
  /\ Len(manifestFile.data.repositories) = 3
  /\ \A e \in Range(manifestFile.data.repositories) : e.archived = FALSE

\* a sync run is over and has downloaded nothing new
ZeroRun == pc = "synced" /\ sync.newAssetsDownloaded = 0

\* every asset of at most 50 MB in a published release with a v tag is on
\* disk at its size with its three hash files
Mirrored ==
  \A a \in UpstreamAssets :
    (a.published /\ a.size <= maxSizeBytes /\ StartsWith(a.path[2], "v")) =>
      /\ fileExists(files, a.path) /\ files[a.path] = a.size
      /\ \A h \in HashPaths(a.path) : fileExists(files, h)

\* C36: the pipeline repeated under a quota with nothing failing comes to a
\* sync run that downloads nothing new, and from such a run on every asset
\* of at most 50 MB in a published release with a v tag is on disk with its
\* hash files.
C36_Converges ==
  /\ <>ZeroRun
  /\ [](ZeroRun => []Mirrored)

\* C37: a sync run that has started comes to its end, whatever downloads,
\* hashings and release enumerations fail on the way; and at every moment
\* of the run the download attempts made so far are at most three for each
\* asset a download was attempted for, each of them an asset upstream
\* lists, so at most three times the number of listed assets.
C37_TerminatesWithinBound ==
  /\ [](/\ fetch.total <= maxRetries * Cardinality(attempted)
        /\ attempted \subseteq { a.path : a \in UpstreamAssets }
        /\ fetch.total <= maxRetries * Cardinality(UpstreamAssets)
        /\ fetch.tries <= fetch.total)
  /\ (pc = "repos") ~> (pc = "synced")

\* the run is over; one download was given up after three attempts and the
\* other assets took one attempt each
C37_ThreeForOne ==
  /\ pc = "synced"
  /\ Exhausted # {}
  /\ Cardinality(attempted) = 7
  /\ fetch.total = 9

\* the run's counts as they stand in the middle of a repository or release
InRepository == pc \in {"releases", "assets", "download", "backoff", "hash"}
InRelease == pc \in {"assets", "download", "backoff", "hash"}

QualifyingCounter ==
  (IF InRepository THEN repository.totalAssets ELSE sync.totalAssets)
  + (IF InRelease THEN release.assetCount ELSE 0)

ReleaseCounter ==
  sync.totalProcessedReleases
  + (IF InRepository THEN repository.processedReleasesWithAssets ELSE 0)

\* C38: in a sync run the count of new assets is never above the count of
\* qualifying assets; no step of the run lowers the count of qualifying
\* assets, of new assets or of releases with assets; and a step in which
\* an operation fails (a release enumeration, the creation of a release
\* directory, a download attempt, a hashing) leaves the three counts
\* exactly as they were.
C38_CountsKept ==
  /\ [](/\ NewAssetCounter <= QualifyingCounter
        /\ sync.newAssetsDownloaded <= sync.totalAssets)
  /\ [][ pc # "idle" =>
           /\ QualifyingCounter' >= QualifyingCounter
           /\ NewAssetCounter' >= NewAssetCounter
           /\ ReleaseCounter' >= ReleaseCounter
           /\ sync'.totalAssets >= sync.totalAssets
           /\ sync'.newAssetsDownloaded >= sync.newAssetsDownloaded
           /\ sync'.totalProcessedReleases >= sync.totalProcessedReleases
           /\ faults' > faults =>
                /\ QualifyingCounter' = QualifyingCounter
                /\ NewAssetCounter' = NewAssetCounter
                /\ ReleaseCounter' = ReleaseCounter ]_vars

\* r1 threw at the directory of its second release after its first was
\* counted: the counts of the first release are in the run's counts, and
\* r1 has no record
C38_PartWay ==
  /\ pc = "repos"
  /\ sync.repoIdx = 2
  /\ faults = 1
  /\ threw = {}
  /\ sync.repositoryData = <<>>
  /\ sync.totalAssets = 2
  /\ sync.newAssetsDownloaded = 2
  /\ sync.totalProcessedReleases = 1

====
